---- MODULE Spec2Model ----
(***************************************************************************)
(* A model of LazyUI: the Tailwind configuration extractor, the truth      *)
(* resolver, the class validator with its suggestion engine, and the       *)
(* generate command with its retry loop.                                   *)
(*                                                                         *)
(* JavaScript strings that the code inspects character by character (class *)
(* names, prefixes, keys) are sequences of one-character strings, so that  *)
(* startsWith, substring, split, join and the edit distance are computed   *)
(* as the code computes them.  Strings the code only passes on (messages,  *)
(* file names) are TLA+ strings.  A JavaScript object is the sequence of   *)
(* its own <<key, value>> pairs in property enumeration order.             *)
(***************************************************************************)
EXTENDS Integers, Sequences, FiniteSets, TLC

\* ------------------------------------------------------------------------
\* Bounds of the model
\* ------------------------------------------------------------------------

\* Largest number of class tokens in one generated text to validate.
MaxTokens == 2

\* Largest candidate pool handed to findClosest in the suggestion model.
MaxPool == 4

\* Number of generate commands one behaviour of the command model runs.
MaxRequests == 2

\* ------------------------------------------------------------------------
\* JavaScript strings and objects
\* ------------------------------------------------------------------------

\* Holds of every value.  TLC evaluates the argument of an operator when it
\* is first used; a loop tests Evaluated(v) to have v evaluated before its
\* next iteration starts.
Evaluated(v) == v = v

\* String.prototype.startsWith
StartsWith(s, p) == Len(p) <= Len(s) /\ SubSeq(s, 1, Len(p)) = p

\* String.prototype.endsWith('-')
EndsWithDash(s) == Len(s) > 0 /\ s[Len(s)] = "-"

\* String.prototype.includes for a single character
Includes(s, c) == \E i \in 1..Len(s) : s[i] = c

\* String.prototype.substring(n)
Substring(s, n) == SubSeq(s, n + 1, Len(s))

Digits == {"0", "1", "2", "3", "4", "5", "6", "7", "8", "9"}

DigitValue(c) ==
  CASE c = "0" -> 0 [] c = "1" -> 1 [] c = "2" -> 2 [] c = "3" -> 3
    [] c = "4" -> 4 [] c = "5" -> 5 [] c = "6" -> 6 [] c = "7" -> 7
    [] c = "8" -> 8 [] c = "9" -> 9

RECURSIVE NumericValue(_)
NumericValue(s) ==
  IF s = <<>> THEN 0
  ELSE 10 * NumericValue(SubSeq(s, 1, Len(s) - 1)) + DigitValue(s[Len(s)])

\* An integer-index property key: a canonical decimal numeral (below
\* 2^32 - 1; the keys of the model have fewer than ten digits).  Such keys
\* are enumerated first, in ascending numeric order.
IsArrayIndex(k) ==
  /\ Len(k) > 0
  /\ Len(k) <= 9
  /\ \A i \in 1..Len(k) : k[i] \in Digits
  /\ (Len(k) = 1 \/ k[1] # "0")

ObjHas(o, k) == \E i \in 1..Len(o) : o[i][1] = k

ObjGet(o, k) == o[CHOOSE i \in 1..Len(o) : o[i][1] = k][2]

\* Object.keys(o)
ObjKeys(o) == [i \in 1..Len(o) |-> o[i][1]]

KeySet(o) == {o[i][1] : i \in 1..Len(o)}

\* The place a new key takes in the enumeration order of o.
InsertAt(o, k) ==
  IF IsArrayIndex(k)
  THEN 1 + Cardinality({i \in 1..Len(o) :
              IsArrayIndex(o[i][1]) /\ NumericValue(o[i][1]) < NumericValue(k)})
  ELSE Len(o) + 1

\* o[k] = v
ObjSet(o, k, v) ==
  IF ObjHas(o, k)
  THEN [i \in 1..Len(o) |-> IF o[i][1] = k THEN <<k, v>> ELSE o[i]]
  ELSE LET p == InsertAt(o, k)
       IN  SubSeq(o, 1, p - 1) \o << <<k, v>> >> \o SubSeq(o, p, Len(o))

\* Object.assign(target, source), also one step of an object spread
RECURSIVE ObjAssign(_, _)
ObjAssign(target, source) ==
  IF source = <<>> THEN target
  ELSE ObjAssign(ObjSet(target, source[1][1], source[1][2]), Tail(source))

\* Names every object inherits from Object.prototype: obj[name] is truthy for
\* them although obj has no such key of its own.
ObjectPrototypeKeys ==
  { <<"c","o","n","s","t","r","u","c","t","o","r">>, <<"t","o","S","t","r","i","n","g">>, <<"v","a","l","u","e","O","f">>, <<"h","a","s","O","w","n","P","r","o","p","e","r","t","y">>,
    <<"i","s","P","r","o","t","o","t","y","p","e","O","f">>, <<"p","r","o","p","e","r","t","y","I","s","E","n","u","m","e","r","a","b","l","e">>, <<"t","o","L","o","c","a","l","e","S","t","r","i","n","g">>,
    <<"_","_","p","r","o","t","o","_","_">>, <<"_","_","d","e","f","i","n","e","G","e","t","t","e","r","_","_">>, <<"_","_","d","e","f","i","n","e","S","e","t","t","e","r","_","_">>,
    <<"_","_","l","o","o","k","u","p","G","e","t","t","e","r","_","_">>, <<"_","_","l","o","o","k","u","p","S","e","t","t","e","r","_","_">> }

\* The truthiness of obj[token], as tested by !resolvedTruth.colors[token]:
\* an own key with a non-empty string value, or an inherited name.
Truthy(o, token) ==
  IF ObjHas(o, token) THEN ObjGet(o, token) # <<>>
  ELSE token \in ObjectPrototypeKeys

\* ------------------------------------------------------------------------
\* validator: tables
\* ------------------------------------------------------------------------

\* Object.entries(SCOPED_PREFIXES): the categories in declaration order, each
\* with its prefixes in declaration order.
SCOPED_PREFIXES ==
  << << "colors",
        << <<"b","g","-">>, <<"t","e","x","t","-">>, <<"b","o","r","d","e","r","-">>, <<"r","i","n","g","-">>, <<"d","i","v","i","d","e","-">> >> >>,
     << "spacing",
        << <<"p","-">>, <<"p","t","-">>, <<"p","r","-">>, <<"p","b","-">>, <<"p","l","-">>, <<"p","x","-">>, <<"p","y","-">>,
           <<"m","-">>, <<"m","t","-">>, <<"m","r","-">>, <<"m","b","-">>, <<"m","l","-">>, <<"m","x","-">>, <<"m","y","-">>,
           <<"g","a","p","-">>, <<"g","a","p","-","x","-">>, <<"g","a","p","-","y","-">>, <<"s","p","a","c","e","-","x","-">>, <<"s","p","a","c","e","-","y","-">> >> >>,
     << "layout",
        << <<"f","l","e","x">>, <<"f","l","e","x","-">>, <<"g","r","i","d">>, <<"g","r","i","d","-">>, <<"b","l","o","c","k">>, <<"h","i","d","d","e","n">>,
           <<"i","n","l","i","n","e">>, <<"i","n","l","i","n","e","-","b","l","o","c","k">>, <<"i","n","l","i","n","e","-","f","l","e","x">>, <<"i","n","l","i","n","e","-","g","r","i","d">>,
           <<"w","-">>, <<"h","-">>, <<"m","i","n","-","w","-">>, <<"m","a","x","-","w","-">>, <<"m","i","n","-","h","-">>, <<"m","a","x","-","h","-">>,
           <<"j","u","s","t","i","f","y","-">>, <<"i","t","e","m","s","-">>, <<"c","o","n","t","e","n","t","-">>, <<"s","e","l","f","-">>, <<"c","o","l","-">>,
           <<"r","o","w","-">>,
           <<"r","e","l","a","t","i","v","e">>, <<"a","b","s","o","l","u","t","e">>, <<"f","i","x","e","d">>, <<"s","t","i","c","k","y">>,
           <<"t","o","p","-">>, <<"b","o","t","t","o","m","-">>, <<"l","e","f","t","-">>, <<"r","i","g","h","t","-">>, <<"i","n","s","e","t","-">>,
           <<"z","-">>, <<"f","l","e","x","-","w","r","a","p">>, <<"o","r","d","e","r","-">>, <<"o","v","e","r","f","l","o","w","-">>,
           <<"b","o","r","d","e","r","-","t","-">>, <<"b","o","r","d","e","r","-","b","-">>, <<"b","o","r","d","e","r","-","l","-">>, <<"b","o","r","d","e","r","-","r","-">>,
           <<"b","o","r","d","e","r","-","x","-">>, <<"b","o","r","d","e","r","-","y","-">> >> >>,
     << "typography",
        << <<"f","o","n","t","-">>, <<"l","e","a","d","i","n","g","-">>, <<"t","r","a","c","k","i","n","g","-">>, <<"t","e","x","t","-">>,
           <<"u","p","p","e","r","c","a","s","e">>, <<"l","o","w","e","r","c","a","s","e">>, <<"c","a","p","i","t","a","l","i","z","e">>, <<"n","o","r","m","a","l","-","c","a","s","e">>,
           <<"l","i","s","t","-">>, <<"i","t","a","l","i","c">>, <<"u","n","d","e","r","l","i","n","e">>,
           <<"t","e","x","t","-","c","e","n","t","e","r">>, <<"t","e","x","t","-","l","e","f","t">>, <<"t","e","x","t","-","r","i","g","h","t">> >> >>,
     << "decoration",
        << <<"r","o","u","n","d","e","d","-">>, <<"r","o","u","n","d","e","d">>, <<"s","h","a","d","o","w","-">>, <<"s","h","a","d","o","w">>,
           <<"o","p","a","c","i","t","y","-">>, <<"c","u","r","s","o","r","-">>,
           <<"b","o","r","d","e","r","-","t">>, <<"b","o","r","d","e","r","-","b">>, <<"b","o","r","d","e","r","-","l">>, <<"b","o","r","d","e","r","-","r">>,
           <<"r","i","n","g","-">>, <<"o","u","t","l","i","n","e","-">>, <<"t","r","a","n","s","i","t","i","o","n","-">>, <<"d","u","r","a","t","i","o","n","-">> >> >> >>

STANDARD_SIZE_KEYWORDS ==
  << <<"f","u","l","l">>, <<"s","c","r","e","e","n">>, <<"m","i","n">>, <<"m","a","x">>, <<"f","i","t">>, <<"a","u","t","o">>, <<"p","x">> >>

TEXT_SIZES ==
  << <<"x","s">>, <<"s","m">>, <<"b","a","s","e">>, <<"l","g">>, <<"x","l">>, <<"2","x","l">>, <<"3","x","l">>, <<"4","x","l">>,
     <<"5","x","l">>, <<"6","x","l">>, <<"7","x","l">>, <<"8","x","l">>, <<"9","x","l">> >>

BORDER_WIDTHS == << <<"0">>, <<"2">>, <<"4">>, <<"8">> >>

\* Array.prototype.includes
SeqIncludes(arr, x) == \E i \in 1..Len(arr) : arr[i] = x

\* ------------------------------------------------------------------------
\* validator: suggestion engine
\* ------------------------------------------------------------------------

Min3(x, y, z) ==
  IF x <= y THEN (IF x <= z THEN x ELSE z) ELSE (IF y <= z THEN y ELSE z)

\* Row i of the distance matrix, filled left to right from row i - 1.
\* Column j of a row is kept at index j + 1; acc holds the columns before j,
\* so the next column to fill is j = Len(acc).
RECURSIVE LevRow(_, _, _, _, _)
LevRow(a, b, i, prev, acc) ==
  IF Len(acc) > Len(a) THEN acc
  ELSE LET j == Len(acc)
       IN  IF b[i] = a[j]
           THEN LevRow(a, b, i, prev, Append(acc, prev[j]))
           ELSE LevRow(a, b, i, prev,
                       Append(acc, Min3(prev[j] + 1, acc[j] + 1, prev[j + 1] + 1)))

\* The matrix, row by row: row i is kept at index i + 1, and row i starts as
\* [i] (matrix[i] = [i]).
RECURSIVE LevMatrix(_, _, _)
LevMatrix(a, b, matrix) ==
  IF Len(matrix) > Len(b) THEN matrix
  ELSE LevMatrix(a, b,
         Append(matrix,
                LevRow(a, b, Len(matrix), matrix[Len(matrix)],
                       <<Len(matrix)>>)))

\* levenshtein(a, b) = matrix[b.length][a.length]; row 0 is 0, 1, ..., a.length
levenshtein(a, b) ==
  LevMatrix(a, b, << [j \in 1..(Len(a) + 1) |-> j - 1] >>)[Len(b) + 1][Len(a) + 1]

\* A comparator that would also put x before an earlier-placed y of the same
\* distance.
SortsBeforeOrEqual(x, y) == x.distance <= y.distance

\* The comparator of distances.sort: x goes before an earlier-placed y only
\* when its distance is strictly smaller (the sort is stable).
SortsBefore(x, y) == x.distance < y.distance

\* Place x into the sorted sequence s, in front of the first element it
\* sorts before, or at the end when there is none.
SortInsert(s, x) ==
  LET later == {i \in 1..Len(s) : SortsBefore(x, s[i])}
      p == IF later = {} THEN Len(s) + 1
           ELSE CHOOSE i \in later : \A k \in later : i <= k
  IN  SubSeq(s, 1, p - 1) \o <<x>> \o SubSeq(s, p, Len(s))

\* distances.sort((a, b) => a.distance - b.distance)
RECURSIVE SortByDistance(_)
SortByDistance(ds) ==
  IF ds = <<>> THEN <<>>
  ELSE SortInsert(SortByDistance(SubSeq(ds, 1, Len(ds) - 1)), ds[Len(ds)])

\* The number of suggestions kept: distances.slice(0, 3)
SuggestionLimit == 3

\* Array.prototype.slice(0, n)
SliceTo(s, n) == SubSeq(s, 1, IF Len(s) < n THEN Len(s) ELSE n)

findClosest(target, options) ==
  LET distances == [i \in 1..Len(options) |->
                      [option |-> options[i],
                       distance |-> levenshtein(target, options[i])]]
      sorted == SliceTo(SortByDistance(distances), SuggestionLimit)
  IN  [i \in 1..Len(sorted) |-> sorted[i].option]

\* ------------------------------------------------------------------------
\* validator: tokenizer
\* ------------------------------------------------------------------------

\* The characters /\s/ matches that occur in the modelled texts.
Whitespace == {" ", "\n", "\t"}

\* The positions where a run of non-whitespace characters of s starts.
RunStarts(s) ==
  {i \in 1..Len(s) : s[i] \notin Whitespace
                       /\ (i = 1 \/ s[i - 1] \in Whitespace)}

\* The position where the run that starts at i ends.
RunEnd(s, i) ==
  CHOOSE k \in i..Len(s) :
    /\ \A m \in i..k : s[m] \notin Whitespace
    /\ (k = Len(s) \/ s[k + 1] \in Whitespace)

\* classString.split(/\s+/).filter(Boolean): the maximal runs of
\* non-whitespace characters, in order.
SplitWhitespace(s) ==
  LET starts == RunStarts(s)
      nth(n) == CHOOSE i \in starts :
                  Cardinality({k \in starts : k < i}) = n - 1
  IN  [n \in 1..Cardinality(starts) |-> SubSeq(s, nth(n), RunEnd(s, nth(n)))]

\* A text is given by the successive matches of classRegex in it: each match
\* is the captured attribute content (match[1] || match[2]).
\* extractClasses pushes the tokens of every match, in order.
RECURSIVE extractClasses(_)
extractClasses(code) ==
  IF code = <<>> THEN <<>>
  ELSE (IF code[1] # <<>> THEN SplitWhitespace(code[1]) ELSE <<>>)
       \o extractClasses(Tail(code))

\* Array.prototype.join(sep)
RECURSIVE JoinWith(_, _)
JoinWith(arr, sep) ==
  IF arr = <<>> THEN <<>>
  ELSE IF Len(arr) = 1 THEN arr[1]
  ELSE arr[1] \o sep \o JoinWith(Tail(arr), sep)

\* validClasses.join(' ')
\* A join that would put nothing between the classes.
JoinNoSeparator(arr) == JoinWith(arr, <<>>)

JoinSpace(arr) == JoinWith(arr, <<" ">>)

\* ------------------------------------------------------------------------
\* validator: prefix matcher
\* ------------------------------------------------------------------------

\* The (category, prefix) pairs in the order the two nested loops visit them.
RECURSIVE PrefixEntriesFrom(_)
PrefixEntriesFrom(table) ==
  IF table = <<>> THEN <<>>
  ELSE [i \in 1..Len(table[1][2]) |->
          [category |-> table[1][1], prefix |-> table[1][2][i]]]
       \o PrefixEntriesFrom(Tail(table))

PrefixEntries == PrefixEntriesFrom(SCOPED_PREFIXES)

\* findLongestMatch returning null
NoMatch == [category |-> "null", prefix |-> <<>>]

\* let longestMatch = null; let longestLength = 0
NoneYet == [longestMatch |-> NoMatch, longestLength |-> 0]

\* Whether one table prefix matches className: equality for a prefix without
\* a trailing '-', startsWith for one with it.
PrefixMatches(className, prefix) ==
  IF ~EndsWithDash(prefix) THEN className = prefix
  ELSE StartsWith(className, prefix)

\* A comparison that would let a later prefix of the same length replace the
\* match.
LongerOrEqual(prefix, longestLength) == Len(prefix) >= longestLength

\* Whether a matching prefix replaces the longest match so far.
Longer(prefix, longestLength) == Len(prefix) > longestLength

\* The body of the inner loop for one table entry.
MatchStep(className, entry, best) ==
  IF Longer(entry.prefix, best.longestLength)
     /\ PrefixMatches(className, entry.prefix)
  THEN [longestMatch |-> entry, longestLength |-> Len(entry.prefix)]
  ELSE best

\* The iterations for the entries lo..hi, in order, starting from best.  The
\* range is taken in two halves; the test on the first half's result holds
\* always (a matching prefix is no longer than className) and makes TLC
\* finish the first half before it starts the second.
RECURSIVE MatchLoop(_, _, _, _)
MatchLoop(className, lo, hi, best) ==
  IF lo > hi THEN best
  ELSE IF lo = hi THEN MatchStep(className, PrefixEntries[lo], best)
  ELSE LET first == MatchLoop(className, lo, (lo + hi) \div 2, best)
       IN  IF first.longestLength <= Len(className)
           THEN MatchLoop(className, (lo + hi) \div 2 + 1, hi, first)
           ELSE first

findLongestMatch(className) ==
  MatchLoop(className, 1, Len(PrefixEntries), NoneYet).longestMatch

extractToken(className, prefix) ==
  IF ~EndsWithDash(prefix) THEN <<>> ELSE Substring(className, Len(prefix))

\* /^\d+\/\d+$/
IsFraction(token) ==
  \E k \in 2..(Len(token) - 1) :
    /\ token[k] = "/"
    /\ \A i \in 1..Len(token) : i # k => token[i] \in Digits

isStandardSizeKeyword(token) ==
  SeqIncludes(STANDARD_SIZE_KEYWORDS, token) \/ IsFraction(token)

\* ------------------------------------------------------------------------
\* validator: validateCode
\* ------------------------------------------------------------------------

\* errors.push(`Invalid arbitrary value: '${className}'. Arbitrary values are
\* not allowed.`): the message is given by its kind and the class it names.
ArbitraryError(className) ==
  [kind |-> "arbitrary", className |-> className, suggestions |-> <<>>]

\* A message whose suggestions would be the bare candidates, without the
\* prefix of the rejected class.
InvalidErrorBareCandidates(className, prefix, suggestions) ==
  [kind |-> "invalid", className |-> className, suggestions |-> suggestions]

\* errors.push(`Invalid class '${className}'. Did you mean: ${suggestionText}?`)
\* with suggestionText = suggestions.map(s => `'${prefix}${s}'`).join(', '):
\* the message is given by the class it names and the rendered suggestions.
InvalidError(className, prefix, suggestions) ==
  [kind |-> "invalid", className |-> className,
   suggestions |-> [i \in 1..Len(suggestions) |-> prefix \o suggestions[i]]]

NoError == [kind |-> "none", className |-> <<>>, suggestions |-> <<>>]

Accept == [ok |-> TRUE, error |-> NoError]

Reject(error) == [ok |-> FALSE, error |-> error]

\* Step A: the arbitrary-value test.
IsArbitrary(className) == Includes(className, "[") /\ Includes(className, "]")

\* A check of the value token against resolved colors, used by the text-,
\* border- and the other color prefixes alike.
CheckColor(className, prefix, token, resolvedTruth) ==
  IF token # <<>> /\ ~Truthy(resolvedTruth.colors, token)
  THEN Reject(InvalidError(className, prefix,
                 findClosest(token, ObjKeys(resolvedTruth.colors))))
  ELSE Accept

\* A check of the value token against resolved spacing, used by the spacing
\* category and the directional border-width prefixes.
CheckSpacing(className, prefix, token, resolvedTruth) ==
  IF token # <<>> /\ ~Truthy(resolvedTruth.spacing, token)
  THEN Reject(InvalidError(className, prefix,
                 findClosest(token, ObjKeys(resolvedTruth.spacing))))
  ELSE Accept

\* The sizing prefixes: standard keywords, fractions, or resolved spacing.
CheckSizing(className, prefix, token, resolvedTruth) ==
  IF /\ token # <<>>
     /\ ~isStandardSizeKeyword(token)
     /\ ~Truthy(resolvedTruth.spacing, token)
  THEN Reject(InvalidError(className, prefix,
                 findClosest(token, STANDARD_SIZE_KEYWORDS
                                      \o ObjKeys(resolvedTruth.spacing))))
  ELSE Accept

IsSizingPrefix(prefix) ==
  \/ StartsWith(prefix, <<"w","-">>) \/ StartsWith(prefix, <<"h","-">>)
  \/ StartsWith(prefix, <<"m","i","n","-">>) \/ StartsWith(prefix, <<"m","a","x","-">>)

IsBorderSidePrefix(prefix) ==
  \/ StartsWith(prefix, <<"b","o","r","d","e","r","-","t","-">>) \/ StartsWith(prefix, <<"b","o","r","d","e","r","-","b","-">>)
  \/ StartsWith(prefix, <<"b","o","r","d","e","r","-","l","-">>) \/ StartsWith(prefix, <<"b","o","r","d","e","r","-","r","-">>)
  \/ StartsWith(prefix, <<"b","o","r","d","e","r","-","x","-">>) \/ StartsWith(prefix, <<"b","o","r","d","e","r","-","y","-">>)

\* Step C: the verdict on a class that matched (category, prefix).
CategoryVerdict(className, category, prefix, token, resolvedTruth) ==
  IF category = "colors" THEN
    IF prefix = <<"t","e","x","t","-">> THEN
      IF SeqIncludes(TEXT_SIZES, token) THEN Accept
      ELSE CheckColor(className, prefix, token, resolvedTruth)
    ELSE IF prefix = <<"b","o","r","d","e","r","-">> THEN
      IF SeqIncludes(BORDER_WIDTHS, token) THEN Accept
      ELSE CheckColor(className, prefix, token, resolvedTruth)
    ELSE CheckColor(className, prefix, token, resolvedTruth)
  ELSE IF category = "spacing" THEN
    CheckSpacing(className, prefix, token, resolvedTruth)
  ELSE IF category = "layout" THEN
    IF IsSizingPrefix(prefix) THEN
      CheckSizing(className, prefix, token, resolvedTruth)
    ELSE IF IsBorderSidePrefix(prefix) THEN
      CheckSpacing(className, prefix, token, resolvedTruth)
    ELSE Accept
  ELSE Accept

\* A loop body that would take the prefix table for an exhaustive grammar and
\* reject a class that matches none of its entries.
ClassVerdictRejectsUnmatched(className, resolvedTruth) ==
  IF IsArbitrary(className) THEN Reject(ArbitraryError(className))
  ELSE LET match == findLongestMatch(className)
       IN  IF match = NoMatch
           THEN Reject(InvalidError(className, <<>>, <<>>))
           ELSE CategoryVerdict(className, match.category, match.prefix,
                                extractToken(className, match.prefix),
                                resolvedTruth)

\* A loop body that would match the prefix first and test for an arbitrary
\* value only on a class that matched.
ClassVerdictMatchFirst(className, resolvedTruth) ==
  LET match == findLongestMatch(className)
  IN  IF match = NoMatch THEN Accept
      ELSE IF IsArbitrary(className) THEN Reject(ArbitraryError(className))
      ELSE CategoryVerdict(className, match.category, match.prefix,
                           extractToken(className, match.prefix),
                           resolvedTruth)

\* The body of the loop for one class: steps A, B and C.
ClassVerdict(className, resolvedTruth) ==
  IF IsArbitrary(className) THEN Reject(ArbitraryError(className))
  ELSE LET match == findLongestMatch(className)
       IN  IF match = NoMatch THEN Accept
           ELSE CategoryVerdict(className, match.category, match.prefix,
                                extractToken(className, match.prefix),
                                resolvedTruth)

\* The accumulators of validateCode before the loop.
LoopStart == [validClasses |-> <<>>, errors |-> <<>>, isValid |-> TRUE]

\* An iteration that would push every class to validClasses, the rejected
\* ones included.
ValidateStepKeepingRejected(st, className, resolvedTruth) ==
  LET v == ClassVerdict(className, resolvedTruth)
  IN  IF v.ok
      THEN [st EXCEPT !.validClasses = Append(@, className)]
      ELSE [st EXCEPT !.validClasses = Append(@, className),
                      !.errors = Append(@, v.error), !.isValid = FALSE]

\* One iteration: the class is pushed to validClasses, or its error is pushed
\* and isValid is cleared.
ValidateStep(st, className, resolvedTruth) ==
  LET v == ClassVerdict(className, resolvedTruth)
  IN  IF v.ok
      THEN [st EXCEPT !.validClasses = Append(@, className)]
      ELSE [st EXCEPT !.errors = Append(@, v.error), !.isValid = FALSE]

\* A loop that would stop at the first rejection (a break after the push of
\* an error); validateCode has no such break.
LoopStopsAtRejection(st, idx, classes) == idx < Len(classes) /\ st.isValid

\* Whether the for-of loop takes another iteration after idx classes.
LoopContinues(st, idx, classes) == idx < Len(classes)

\* return { isValid, code: validClasses.join(' '), errors }
ValidationResultOf(st) ==
  [isValid |-> st.isValid, code |-> JoinSpace(st.validClasses),
   errors |-> st.errors]

RECURSIVE ValidateLoop(_, _, _, _)
ValidateLoop(st, idx, classes, resolvedTruth) ==
  IF LoopContinues(st, idx, classes)
  THEN ValidateLoop(ValidateStep(st, classes[idx + 1], resolvedTruth),
                    idx + 1, classes, resolvedTruth)
  ELSE st

validateCode(code, resolvedTruth) ==
  ValidationResultOf(ValidateLoop(LoopStart, 0, extractClasses(code),
                                  resolvedTruth))

\* ------------------------------------------------------------------------
\* resolver
\* ------------------------------------------------------------------------

\* defaultTheme (assets/tailwind-defaults.json): the frozen defaults written
\* by scripts/generate-defaults.js.  The model keeps an excerpt of the table:
\* flattened colors, and spacing with its keys in enumeration order.
DefaultColors ==
  << <<<<"b","l","a","c","k">>, <<"#","0","0","0">>>>, <<<<"w","h","i","t","e">>, <<"#","f","f","f">>>>,
     <<<<"b","l","u","e","-","5","0","0">>, <<"#","3","b","8","2","f","6">>>>, <<<<"b","l","u","e","-","6","0","0">>, <<"#","2","5","6","3","e","b">>>>,
     <<<<"g","r","e","e","n","-","5","0","0">>, <<"#","2","2","c","5","5","e">>>> >>

DefaultSpacing ==
  << <<<<"0">>, <<"0","p","x">>>>, <<<<"1">>, <<"0",".","2","5","r","e","m">>>>, <<<<"2">>, <<"0",".","5","r","e","m">>>>,
     <<<<"4">>, <<"1","r","e","m">>>>, <<<<"p","x">>, <<"1","p","x">>>>, <<<<"0",".","5">>, <<"0",".","1","2","5","r","e","m">>>> >>

\* A bucket pair, or a resolved truth, with no token at all.
EmptyBuckets == [colors |-> <<>>, spacing |-> <<>>]

\* { ...base, ...overlay }
Spread(base, overlay) == ObjAssign(ObjAssign(<<>>, base), overlay)

\* A merge with the spreads in the other order, where the baseline would win
\* over the extend bucket.
ResolveFamilyBaselineWins(override, extend, defaults) ==
  IF Len(ObjKeys(override)) > 0
  THEN Spread(extend, override)
  ELSE Spread(extend, defaults)

\* One token family of resolveTruth: the override bucket when it has keys,
\* the defaults otherwise, with the extend bucket merged on top.
ResolveFamily(override, extend, defaults) ==
  IF Len(ObjKeys(override)) > 0
  THEN Spread(override, extend)
  ELSE Spread(defaults, extend)

resolveTruth(userTruth) ==
  [colors  |-> ResolveFamily(userTruth.override.colors,
                             userTruth.extend.colors, DefaultColors),
   spacing |-> ResolveFamily(userTruth.override.spacing,
                             userTruth.extend.spacing, DefaultSpacing)]

\* ------------------------------------------------------------------------
\* extractor: flattening
\* ------------------------------------------------------------------------

\* The values extractObjectFromNode produces: an object, a string, or null.
ObjectValue(props) == [type |-> "object", value |-> <<>>, props |-> props]

StringValue(s) == [type |-> "string", value |-> s, props |-> <<>>]

NullValue == [type |-> "null", value |-> <<>>, props |-> <<>>]

\* const newKey = prefix ? `${prefix}-${key}` : key
NewKey(prefix, key) ==
  IF prefix # <<>> THEN prefix \o <<"-">> \o key ELSE key

\* flattenObject(obj, prefix), obj given by its properties in for-in order.
RECURSIVE FlattenInto(_, _, _)
flattenObject(obj, prefix) == FlattenInto(<<>>, obj, prefix)

FlattenInto(result, obj, prefix) ==
  IF obj = <<>> THEN result
  ELSE LET key    == obj[1][1]
           value  == obj[1][2]
           newKey == NewKey(prefix, key)
           next   == IF value.type = "object"
                     THEN ObjAssign(result, flattenObject(value.props, newKey))
                     ELSE IF value.type = "string"
                     THEN ObjSet(result, newKey, value.value)
                     ELSE result
       IN  FlattenInto(next, Tail(obj), prefix)

\* ------------------------------------------------------------------------
\* extractor: syntax tree, traversal, extractTruth
\* ------------------------------------------------------------------------

\* Syntax tree nodes of a parsed configuration.
ObjectExpression(properties) ==
  [type |-> "ObjectExpression", properties |-> properties]

ObjectProperty(key, value) ==
  [type |-> "ObjectProperty", key |-> key, value |-> value]

SpreadElement == [type |-> "SpreadElement"]

StringLiteral(s) == [type |-> "StringLiteral", value |-> s]

\* A numeric literal holds a number: a natural number in the model.
NumericLiteral(n) == [type |-> "NumericLiteral", value |-> n]

\* A template literal: its cooked static segments and the number of
\* interpolated expressions.
TemplateLiteral(quasis, expressions) ==
  [type |-> "TemplateLiteral", quasis |-> quasis, expressions |-> expressions]

\* Any other expression: an identifier, a call, an array, ...
OtherExpression == [type |-> "CallExpression"]

DigitChar(d) ==
  CASE d = 0 -> "0" [] d = 1 -> "1" [] d = 2 -> "2" [] d = 3 -> "3"
    [] d = 4 -> "4" [] d = 5 -> "5" [] d = 6 -> "6" [] d = 7 -> "7"
    [] d = 8 -> "8" [] d = 9 -> "9"

\* String(n) for a natural number n.
RECURSIVE NumberToString(_)
NumberToString(n) ==
  IF n < 10 THEN <<DigitChar(n)>>
  ELSE NumberToString(n \div 10) \o <<DigitChar(n % 10)>>

\* extractObjectFromNode
RECURSIVE extractObjectFromNode(_)
RECURSIVE ExtractProperties(_, _)
ExtractProperties(obj, properties) ==
  IF properties = <<>> THEN obj
  ELSE LET prop == properties[1]
       IN  IF prop.type = "ObjectProperty"
           THEN ExtractProperties(
                  ObjSet(obj, prop.key, extractObjectFromNode(prop.value)),
                  Tail(properties))
           ELSE ExtractProperties(obj, Tail(properties))

extractObjectFromNode(node) ==
  IF node.type = "ObjectExpression"
  THEN ObjectValue(ExtractProperties(<<>>, node.properties))
  ELSE IF node.type = "StringLiteral" THEN StringValue(node.value)
  ELSE IF node.type = "NumericLiteral"
  THEN StringValue(NumberToString(node.value))
  ELSE IF node.type = "TemplateLiteral"
          /\ node.expressions = 0 /\ Len(node.quasis) = 1
  THEN StringValue(node.quasis[1])
  ELSE NullValue

\* path.join('.')
JoinDots(path) == JoinWith(path, <<".">>)

verifyAncestry(path, targetKey) ==
  LET pathStr == JoinDots(path)
  IN  IF pathStr = <<"t","h","e","m","e",".","e","x","t","e","n","d",".">> \o targetKey THEN "extend"
      ELSE IF pathStr = <<"t","h","e","m","e",".">> \o targetKey THEN "root"
      ELSE "null"

\* The four objects the visitor assigns into.
EmptyCollected ==
  [extendColors |-> <<>>, extendSpacing |-> <<>>,
   overrideColors |-> <<>>, overrideSpacing |-> <<>>]

\* if (extracted): an object, or a non-empty string.
IsTruthyValue(v) ==
  v.type = "object" \/ (v.type = "string" /\ v.value # <<>>)

\* The own enumerable properties Object.assign copies from an extracted
\* value: those of an object; of a string, its characters by index.
SourceProperties(v) ==
  IF v.type = "object" THEN v.props
  ELSE [i \in 1..Len(v.value) |->
          <<NumberToString(i - 1), StringValue(<<v.value[i]>>)>>]

\* The ObjectProperty visitor, for a property with the given enclosing
\* property names (outermost first).
VisitProperty(collected, prop, enclosing) ==
  LET key == prop.key
  IN  IF key = <<"c","o","l","o","r","s">> \/ key = <<"s","p","a","c","i","n","g">>
      THEN LET source    == verifyAncestry(Append(enclosing, key), key)
               extracted == extractObjectFromNode(prop.value)
           IN  IF source # "null" /\ IsTruthyValue(extracted)
               THEN IF key = <<"c","o","l","o","r","s">>
                    THEN IF source = "extend"
                         THEN [collected EXCEPT !.extendColors =
                                 ObjAssign(@, SourceProperties(extracted))]
                         ELSE [collected EXCEPT !.overrideColors =
                                 ObjAssign(@, SourceProperties(extracted))]
                    ELSE IF source = "extend"
                         THEN [collected EXCEPT !.extendSpacing =
                                 ObjAssign(@, SourceProperties(extracted))]
                         ELSE [collected EXCEPT !.overrideSpacing =
                                 ObjAssign(@, SourceProperties(extracted))]
               ELSE collected
      ELSE collected

\* traverse(ast, { ObjectProperty }): every property of the tree, parents
\* before children, in source order.  (The test before the next sibling makes
\* TLC finish one property before it starts the next.)
RECURSIVE TraverseProperties(_, _, _)
TraverseProperties(collected, properties, enclosing) ==
  IF properties = <<>> THEN collected
  ELSE LET prop == properties[1]
       IN  IF prop.type = "ObjectProperty"
           THEN LET visited == VisitProperty(collected, prop, enclosing)
                    below   == IF prop.value.type = "ObjectExpression"
                               THEN TraverseProperties(visited,
                                      prop.value.properties,
                                      Append(enclosing, prop.key))
                               ELSE visited
                IN  IF Evaluated(below)
                    THEN TraverseProperties(below, Tail(properties), enclosing)
                    ELSE below
           ELSE TraverseProperties(collected, Tail(properties), enclosing)

\* The file names probed at the project root, in order.
ConfigFiles == <<"tailwind.config.js", "tailwind.config.ts", "tailwind.config.cjs">>

\* The first probed file that exists, or 0.
FirstExisting(files) ==
  IF \E i \in 1..Len(ConfigFiles) : files[ConfigFiles[i]].exists
  THEN CHOOSE i \in 1..Len(ConfigFiles) :
         /\ files[ConfigFiles[i]].exists
         /\ \A j \in 1..(i - 1) : ~files[ConfigFiles[j]].exists
  ELSE 0

\* A failure that would be thrown as a plain Error.
ThrowPlainError(message) ==
  [threw |-> TRUE, name |-> "Error", message |-> message,
   truth |-> [extend |-> EmptyBuckets, override |-> EmptyBuckets]]

\* throw new ConfigParseError(message)
ThrowConfigParseError(message) ==
  [threw |-> TRUE, name |-> "ConfigParseError", message |-> message,
   truth |-> [extend |-> EmptyBuckets, override |-> EmptyBuckets]]

\* extractTruth(projectRoot), the project root given by its files.  The text
\* of the underlying error, which the messages end with, is left out.
extractTruth(files) ==
  LET found == FirstExisting(files)
  IN  IF found = 0
      THEN ThrowConfigParseError("No tailwind config file found")
      ELSE LET file == files[ConfigFiles[found]]
           IN  IF ~file.readable
               THEN ThrowConfigParseError("Failed to read config file")
               ELSE IF ~file.parses
               THEN ThrowConfigParseError("Failed to parse config file")
               ELSE IF ~file.traversable
               THEN ThrowConfigParseError("Failed to traverse AST")
               ELSE LET c == TraverseProperties(EmptyCollected,
                                                file.ast.properties, <<>>)
                    IN  [threw |-> FALSE, name |-> "", message |-> "",
                         truth |->
                           [extend |->
                              [colors  |-> flattenObject(c.extendColors, <<>>),
                               spacing |-> flattenObject(c.extendSpacing, <<>>)],
                            override |->
                              [colors  |-> flattenObject(c.overrideColors, <<>>),
                               spacing |-> flattenObject(c.overrideSpacing, <<>>)]]]

\* ------------------------------------------------------------------------
\* Inputs of the component models
\* ------------------------------------------------------------------------

\* All sequences over S of length at most n.
SeqsUpTo(S, n) == UNION {[1..k -> S] : k \in 0..n}

\* The class tokens the validated texts are made of: one or more for every
\* branch of the validator.
TokenPool ==
  { <<"b","g","-","r","e","d">>, <<"t","e","x","t","-","g","i","a","n","t">>, <<"p","-","4">>, <<"w","-","[","5","0","p","x","]">>, <<"[","x","]">>, <<"f","l","e","x">>,
    <<"f","o","o">>, <<"t","e","x","t","-","x","l">>, <<"b","o","r","d","e","r","-","2">>, <<"w","-","1","/","2">>, <<"p","-","9">>, <<"b","o","r","d","e","r","-","t","-","4">>,
    <<"b","g","-","g","h","o","s","t">>, <<"b","g","-","c","o","n","s","t","r","u","c","t","o","r">> }

\* A text holding the tokens toks: in one class attribute, separated by single
\* spaces, or in two attributes with other whitespace around the tokens.
TextOf(toks, layout) ==
  IF toks = <<>> THEN <<>>
  ELSE IF layout = "single" THEN << JoinWith(toks, <<" ">>) >>
  ELSE << <<" ">> \o toks[1] \o <<"\n">> >>
       \o (IF Len(toks) > 1
           THEN << JoinWith(Tail(toks), <<"\t", <<" ">>>>) >>
           ELSE <<>>)

\* Texts of three classes: the example 'bg-red text-giant p-4', a rejected
\* class followed by an accepted and a rejected one, and bracketed classes
\* with and without a known prefix.
ExampleTexts ==
  { << <<"b","g","-","r","e","d"," ","t","e","x","t","-","g","i","a","n","t"," ","p","-","4">> >>,
    << <<"t","e","x","t","-","g","i","a","n","t"," ","p","-","4"," ","w","-","[","5","0","p","x","]">> >>,
    << <<"w","-","[","5","0","p","x","]"," ","[","x","]"," ","f","l","e","x">> >> }

ValidateTexts ==
  { TextOf(toks, layout) :
      toks \in SeqsUpTo(TokenPool, MaxTokens), layout \in {"single", "split"} }
  \cup ExampleTexts

PrefixSet == {PrefixEntries[i].prefix : i \in 1..Len(PrefixEntries)}

\* The classes validated one at a time: every prefix of the table, no prefix
\* and an unknown stem, each followed by every remainder of ClassRemainders.
ClassStems == PrefixSet \cup { <<>>, <<"f","o","o","-">> }

\* No remainder, keys of one or both truths, a key declared with an empty
\* value, size and width keywords, fractions and near-fractions, an inherited
\* property name, unknown words and a bracketed value.
ClassRemainders ==
  { <<>>, <<"4">>, <<"9">>, <<"8">>, <<"r","e","d">>, <<"g","h","o","s","t">>, <<"g","i","a","n","t">>, <<"x","l">>,
    <<"f","u","l","l">>, <<"1","/","2">>, <<"x","/","2">>, <<"c","o","n","s","t","r","u","c","t","o","r">>, <<"[","1","]">> }

ClassInputs ==
  { s \o r : s \in ClassStems, r \in ClassRemainders } \ { <<>> }

\* A project that owns both families: red and 4 are valid, ghost is declared
\* with an empty value.
OwnedTruth ==
  [override |->
     [colors  |-> << <<<<"r","e","d">>, <<"#","f","0","0">>>>, <<<<"b","l","u","e","-","5","0","0">>, <<"#","0","0","f">>>>,
                     <<<<"g","h","o","s","t">>, <<>> >> >>,
      spacing |-> << <<<<"2">>, <<"0",".","5","r","e","m">>>>, <<<<"4">>, <<"1","r","e","m">>>> >>],
   extend |-> EmptyBuckets]

\* A project that declares nothing: the defaults apply.
BareTruth == [override |-> EmptyBuckets, extend |-> EmptyBuckets]

ValidateTruths == {resolveTruth(OwnedTruth), resolveTruth(BareTruth)}

\* Largest number of keys in one generated bucket of an ExtractedTruth.
MaxKeys == 2

\* The objects built by assigning at most n of the given keys, in any order.
BucketsOver(keys, values, n) ==
  { ObjAssign(<<>>, s) : s \in SeqsUpTo(keys \X values, n) }

ColorBuckets ==
  BucketsOver({<<"w","h","i","t","e">>, <<"b","r","a","n","d">>, <<"b","l","u","e","-","5","0","0">>}, {<<"#","1","1","1">>, <<"#","2","2","2">>}, MaxKeys)

SpacingBuckets ==
  { <<>>, << <<<<"4">>, <<"2","r","e","m">>>> >>, << <<<<"1","3">>, <<"3",".","2","5","r","e","m">>>>, <<<<"p","x">>, <<"2","p","x">>>> >> }

ResolveInputs ==
  { [override |-> [colors |-> oc, spacing |-> os],
     extend   |-> [colors |-> ec, spacing |-> es]] :
      oc \in ColorBuckets, ec \in ColorBuckets,
      os \in SpacingBuckets, es \in SpacingBuckets }

FlattenLeaves == {StringValue(<<"#","0","0","0">>), StringValue(<<"#","f","f","f">>), NullValue}

InnerObjects ==
  BucketsOver({<<"D","E","F","A","U","L","T">>, <<"l","i","g","h","t">>, <<"5","0","0">>}, FlattenLeaves, MaxKeys)

\* Three levels: primary.dark.DEFAULT beside primary.DEFAULT.
DeepObject ==
  << <<<<"p","r","i","m","a","r","y">>,
       ObjectValue(<< <<<<"D","E","F","A","U","L","T">>, StringValue(<<"#","0","0","0">>)>>,
                      <<<<"d","a","r","k">>,
                        ObjectValue(<< <<<<"D","E","F","A","U","L","T">>, StringValue(<<"#","1","1","1">>)>> >>)>> >>)>> >>

FlattenInputs ==
  BucketsOver({<<"p","r","i","m","a","r","y">>, <<"a","c","c","e","n","t">>},
              FlattenLeaves \cup {ObjectValue(o) : o \in InnerObjects},
              MaxKeys)
  \cup {DeepObject}

MatchStems == PrefixSet \cup { <<>>, <<"f","o","o","-">>, <<"b","o","r","d","e">> }

MatchRemainders == { <<>>, <<"b","l","u","e","-","5","0","0">>, <<"t","-","2">>, <<"-">>, <<"x">> }

MatchInputs == { s \o r : s \in MatchStems, r \in MatchRemainders }

ClosestTargets == { <<"b","l","u","e","-","5","0">>, <<"g","r","e","e","n">>, <<>> }

ClosestCandidates ==
  { <<"b","l","u","e","-","5","0","0">>, <<"b","l","u","e","-","6","0","0">>, <<"g","r","e","e","n","-","5","0","0">>, <<"b","l","u","e","-","5","0">>, <<"r","e","d">> }

ClosestPools == SeqsUpTo(ClosestCandidates, MaxPool)

\* ------------------------------------------------------------------------
\* State
\* ------------------------------------------------------------------------

VARIABLES
  val,    \* a run of validateCode: its input, loop position and accumulators
  res,    \* a call of resolveTruth: its argument and result
  flat,   \* a call of flattenObject: its argument and result
  pm,     \* a call of findLongestMatch and extractToken on one class
  sug,    \* a call of findClosest: target, options and result
  cmd,    \* the lazyui.generate command: the locals of its current run
  fs      \* the workspace root: the state of each configuration file

vars == <<val, res, flat, pm, sug, cmd, fs>>

NoResult == [isValid |-> TRUE, code |-> <<>>, errors |-> <<>>]

ValIdle ==
  [pc |-> "idle", code |-> <<>>, truth |-> EmptyBuckets, classes |-> <<>>,
   idx |-> 0, st |-> LoopStart, result |-> NoResult]

ResIdle == [pc |-> "idle", userTruth |-> BareTruth, resolved |-> EmptyBuckets]

FlatIdle == [pc |-> "idle", obj |-> <<>>, result |-> <<>>]

MatchIdle == [pc |-> "idle", className |-> <<>>, match |-> NoMatch, token |-> <<>>]

ClosestIdle == [pc |-> "idle", target |-> <<>>, options |-> <<>>, result |-> <<>>]

\* ------------------------------------------------------------------------
\* validateCode, one loop iteration per step
\* ------------------------------------------------------------------------

\* const classes = extractClasses(code)
ValTokenize ==
  /\ val.pc = "start"
  /\ val' = [val EXCEPT !.pc = "loop", !.classes = extractClasses(val.code)]
  /\ UNCHANGED <<res, flat, pm, sug, cmd, fs>>

\* for (const className of classes) { ... }
ValIterate ==
  /\ val.pc = "loop"
  /\ LoopContinues(val.st, val.idx, val.classes)
  /\ val' = [val EXCEPT
               !.st = ValidateStep(val.st, val.classes[val.idx + 1], val.truth),
               !.idx = val.idx + 1]
  /\ UNCHANGED <<res, flat, pm, sug, cmd, fs>>

ValReturn ==
  /\ val.pc = "loop"
  /\ ~LoopContinues(val.st, val.idx, val.classes)
  /\ val' = [val EXCEPT !.pc = "done", !.result = ValidationResultOf(val.st)]
  /\ UNCHANGED <<res, flat, pm, sug, cmd, fs>>

\* ------------------------------------------------------------------------
\* resolveTruth, flattenObject, findLongestMatch, findClosest as single steps
\* ------------------------------------------------------------------------

ResApply ==
  /\ res.pc = "start"
  /\ res' = [res EXCEPT !.pc = "done", !.resolved = resolveTruth(res.userTruth)]
  /\ UNCHANGED <<val, flat, pm, sug, cmd, fs>>

FlatApply ==
  /\ flat.pc = "start"
  /\ flat' = [flat EXCEPT !.pc = "done", !.result = flattenObject(flat.obj, <<>>)]
  /\ UNCHANGED <<val, res, pm, sug, cmd, fs>>

MatchApply ==
  /\ pm.pc = "start"
  /\ LET match == findLongestMatch(pm.className)
     IN  pm' = [pm EXCEPT
                  !.pc = "done",
                  !.match = match,
                  !.token = IF match = NoMatch THEN <<>>
                            ELSE extractToken(pm.className, match.prefix)]
  /\ UNCHANGED <<val, res, flat, sug, cmd, fs>>

ClosestApply ==
  /\ sug.pc = "start"
  /\ sug' = [sug EXCEPT !.pc = "done",
                        !.result = findClosest(sug.target, sug.options)]
  /\ UNCHANGED <<val, res, flat, pm, cmd, fs>>

\* ------------------------------------------------------------------------
\* The lazyui.generate command
\* ------------------------------------------------------------------------

\* const maxAttempts = 3
maxAttempts == 3

\* Configuration files as they may lie in the workspace root.
AbsentFile ==
  [exists |-> FALSE, readable |-> FALSE, parses |-> FALSE,
   traversable |-> FALSE, ast |-> ObjectExpression(<<>>)]

SourceFile(ast) ==
  [exists |-> TRUE, readable |-> TRUE, parses |-> TRUE, traversable |-> TRUE,
   ast |-> ast]

UnreadableFile == [AbsentFile EXCEPT !.exists = TRUE]

UnparsableFile == [UnreadableFile EXCEPT !.readable = TRUE]

UntraversableFile == [UnparsableFile EXCEPT !.parses = TRUE]

\* module.exports = { theme: { colors: {...}, spacing: {...} } }
OwnedAst ==
  ObjectExpression(<<
    ObjectProperty(<<"t","h","e","m","e">>, ObjectExpression(<<
      ObjectProperty(<<"c","o","l","o","r","s">>, ObjectExpression(<<
        ObjectProperty(<<"r","e","d">>, StringLiteral(<<"#","f","0","0">>)),
        ObjectProperty(<<"b","l","u","e","-","5","0","0">>, StringLiteral(<<"#","0","0","f">>)),
        ObjectProperty(<<"g","h","o","s","t">>, StringLiteral(<<>>)) >>)),
      ObjectProperty(<<"s","p","a","c","i","n","g">>, ObjectExpression(<<
        ObjectProperty(<<"4">>, StringLiteral(<<"1","r","e","m">>)),
        ObjectProperty(<<"2">>, TemplateLiteral(<<<<"0",".","5","r","e","m">>>>, 0)) >>)) >>)) >>)

\* module.exports = { theme: { extend: { colors: {...}, spacing: {...} } },
\*                    legacy: { colors: {...} } }
ExtendAst ==
  ObjectExpression(<<
    ObjectProperty(<<"t","h","e","m","e">>, ObjectExpression(<<
      ObjectProperty(<<"e","x","t","e","n","d">>, ObjectExpression(<<
        ObjectProperty(<<"c","o","l","o","r","s">>, ObjectExpression(<<
          ObjectProperty(<<"p","r","i","m","a","r","y">>, ObjectExpression(<<
            ObjectProperty(<<"D","E","F","A","U","L","T">>, StringLiteral(<<"#","1","1","1">>)),
            ObjectProperty(<<"l","i","g","h","t">>, StringLiteral(<<"#","2","2","2">>)) >>)),
          SpreadElement,
          ObjectProperty(<<"w","h","i","t","e">>, StringLiteral(<<"#","f","e","f","e","f","e">>)) >>)),
        ObjectProperty(<<"s","p","a","c","i","n","g">>, ObjectExpression(<<
          ObjectProperty(<<"1","3">>, NumericLiteral(52)),
          ObjectProperty(<<"f","l","u","i","d">>, OtherExpression) >>)) >>)) >>)),
    ObjectProperty(<<"l","e","g","a","c","y">>, ObjectExpression(<<
      ObjectProperty(<<"c","o","l","o","r","s">>, ObjectExpression(<<
        ObjectProperty(<<"s","t","r","a","y">>, StringLiteral(<<"#","9","9","9">>)) >>)) >>)) >>)

Files(js, ts, cjs) ==
  [f \in {"tailwind.config.js", "tailwind.config.ts", "tailwind.config.cjs"} |->
     IF f = "tailwind.config.js" THEN js
     ELSE IF f = "tailwind.config.ts" THEN ts ELSE cjs]

\* The workspace roots of the model.
Workspaces ==
  { Files(AbsentFile, AbsentFile, AbsentFile),
    Files(SourceFile(OwnedAst), AbsentFile, AbsentFile),
    Files(AbsentFile, SourceFile(ExtendAst), UnparsableFile),
    Files(UnreadableFile, SourceFile(OwnedAst), AbsentFile),
    Files(AbsentFile, AbsentFile, UnparsableFile),
    Files(UntraversableFile, AbsentFile, AbsentFile) }

\* The chains of enclosing property names a colors or spacing property is
\* placed under: none, theme, theme.extend, and others that share names with
\* them; the last is a single property whose name is the text 'theme.extend'.
ExtractChains ==
  { <<>>, << <<"t","h","e","m","e">> >>, << <<"t","h","e","m","e">>, <<"e","x","t","e","n","d">> >>, << <<"e","x","t","e","n","d">> >>,
    << <<"e","x","t","e","n","d">>, <<"t","h","e","m","e">> >>, << <<"t","h","e","m","e">>, <<"e","x","t","e","n","d">>, <<"n","e","s","t","e","d">> >>,
    << <<"p","l","u","g","i","n","s">>, <<"t","h","e","m","e">> >>, << <<"t","h","e","m","e">>, <<"t","h","e","m","e">> >>,
    << <<"t","h","e","m","e",".","e","x","t","e","n","d">> >> }

\* key: { name: '#abc' } inside the object literals of the chain.
RECURSIVE Placed(_, _, _)
Placed(chain, key, name) ==
  IF chain = <<>>
  THEN ObjectProperty(key, ObjectExpression(<<
         ObjectProperty(name, StringLiteral(<<"#","a","b","c">>)) >>))
  ELSE ObjectProperty(chain[1], ObjectExpression(<<
         Placed(Tail(chain), key, name) >>))

\* module.exports = { <first placement>, <second placement> }
ExtractAsts ==
  { ObjectExpression(<< Placed(c1, k1, <<"a">>), Placed(c2, k2, <<"b">>) >>) :
      c1 \in ExtractChains, c2 \in ExtractChains,
      k1 \in { <<"c","o","l","o","r","s">>, <<"s","p","a","c","i","n","g">> }, k2 \in { <<"c","o","l","o","r","s">>, <<"s","p","a","c","i","n","g">> } }

ExtractWorkspaces ==
  { Files(SourceFile(ast), AbsentFile, AbsentFile) : ast \in ExtractAsts }

\* A workspace root without any configuration file.
NoWorkspace == Files(AbsentFile, AbsentFile, AbsentFile)

\* What the model answers, after callLLM has stripped the code fences: a text
\* given by its class attributes.
LlmReplies ==
  { << <<"f","l","e","x"," ","p","-","4">> >>,
    << <<"b","g","-","r","e","d"," ","t","e","x","t","-","g","i","a","n","t"," ","p","-","4">> >>,
    << <<"w","-","[","5","0","p","x","]"," ","f","l","e","x">>, <<"t","e","x","t","-","x","l"," ","b","g","-","p","r","i","m","a","r","y","-","D","E","F","A","U","L","T">> >>,
    <<>> }

\* The ways callLLM throws.
LlmFailures ==
  { "LazyUI API Key not configured", "API request failed", "API Error",
    "API returned 0 choices", "No content in response" }

NoTruth == [extend |-> EmptyBuckets, override |-> EmptyBuckets]

NoReturn == [returned |-> FALSE, value |-> <<>>]

\* The locals of one run of the command, before it starts.
CommandIdle ==
  [pc |-> "idle",
   request |-> 0,
   userTruth |-> NoTruth,
   resolvedTruth |-> EmptyBuckets,
   messages |-> <<>>,
   attempt |-> 0,
   generatedCode |-> <<>>,
   validationResult |-> NoResult,
   result |-> NoReturn,
   thrown |-> "",
   shown |-> <<>>,
   inserted |-> <<>>,
   extractions |-> 0,
   extractFailed |-> FALSE,
   resolutions |-> 0,
   llmCalls |-> 0,
   history |-> <<>>,
   configRead |-> NoWorkspace,
   usedTruths |-> <<>>]

\* vscode.window.showErrorMessage(`${title}: ${message}`, { modal: true })
ErrorMessage(title, message) ==
  [kind |-> "error", title |-> title, message |-> message]

\* The catch block of the command: the message shown for a thrown error.
ShownFor(name, message) ==
  IF name = "StrictComplianceError"
  THEN ErrorMessage("Strict Compliance Error", message)
  ELSE IF name = "ConfigParseError"
  THEN ErrorMessage("Config Parse Error", message)
  ELSE ErrorMessage("Error", message)

\* An error thrown inside the command ends it in the catch block.
Caught(c, name, message) ==
  [c EXCEPT !.pc = "done", !.thrown = name,
            !.shown = Append(@, ShownFor(name, message))]

\* The command starts: the input box, the editor and the workspace folder.
\* Without a prompt it returns silently; without an editor or a workspace
\* folder it shows an error and returns.
Invoke ==
  /\ cmd.pc = "idle"
  /\ cmd.request < MaxRequests
  /\ \E userInput \in BOOLEAN, editor \in BOOLEAN, workspaceFolder \in BOOLEAN :
       LET c == [CommandIdle EXCEPT !.request = cmd.request + 1]
       IN  cmd' =
             IF ~userInput THEN [c EXCEPT !.pc = "done"]
             ELSE IF ~editor
             THEN [c EXCEPT !.pc = "done",
                     !.shown = <<ErrorMessage("", "No active editor found")>>]
             ELSE IF ~workspaceFolder
             THEN [c EXCEPT !.pc = "done",
                     !.shown = <<ErrorMessage("", "No workspace folder found")>>]
             ELSE [c EXCEPT !.pc = "extract"]
  /\ UNCHANGED <<val, res, flat, pm, sug, fs>>

\* const userTruth = extractTruth(projectRoot)
Extract ==
  /\ cmd.pc = "extract"
  /\ LET r == extractTruth(fs)
         c == [cmd EXCEPT !.extractions = @ + 1, !.configRead = fs]
     IN  cmd' = IF r.threw
                THEN Caught([c EXCEPT !.extractFailed = TRUE], r.name, r.message)
                ELSE [c EXCEPT !.pc = "resolve", !.userTruth = r.truth]
  /\ UNCHANGED <<val, res, flat, pm, sug, fs>>

\* const resolvedTruth = resolveTruth(userTruth)
Resolve ==
  /\ cmd.pc = "resolve"
  /\ cmd' = [cmd EXCEPT !.pc = "prompt",
                        !.resolvedTruth = resolveTruth(cmd.userTruth),
                        !.resolutions = @ + 1]
  /\ UNCHANGED <<val, res, flat, pm, sug, fs>>

\* buildSystemPrompt: the prompt lists the first 20 color keys and the first
\* 15 spacing keys of the resolved truth.
SystemPrompt(resolvedTruth) ==
  [role |-> "system",
   colors |-> SliceTo(ObjKeys(resolvedTruth.colors), 20),
   spacing |-> SliceTo(ObjKeys(resolvedTruth.spacing), 15)]

UserPrompt == [role |-> "user", content |-> "userPrompt"]

\* A feedback message that would list only the first error of the attempt.
ErrorFeedbackFirstOnly(errors) ==
  [role |-> "user", content |-> "errorFeedback", errors |-> SubSeq(errors, 1, 1)]

\* The feedback message: the errors of the rejected attempt, in order.
ErrorFeedback(errors) == [role |-> "user", content |-> "errorFeedback", errors |-> errors]

\* generateCompliantUI begins: the conversation, and the first attempt.
Prompt ==
  /\ cmd.pc = "prompt"
  /\ cmd' = [cmd EXCEPT !.pc = "callLLM",
                        !.messages = <<SystemPrompt(cmd.resolvedTruth), UserPrompt>>,
                        !.attempt = 1]
  /\ UNCHANGED <<val, res, flat, pm, sug, fs>>

\* A loop that would catch the error of a failed call and go on to the next
\* attempt.
CallFailedRetries(c, failure) == [c EXCEPT !.attempt = @ + 1]

\* callLLM throws inside the loop, which has no try: the error leaves
\* generateCompliantUI and ends the command in its catch block.
CallFailed(c, failure) == Caught(c, "Error", failure)

\* The head of the attempt loop and callLLM.  Past the last attempt the loop
\* is left and the fallback throws StrictComplianceError.  callLLM throws an
\* Error or returns the generated code.
CallLLM ==
  /\ cmd.pc = "callLLM"
  /\ IF cmd.attempt > maxAttempts
     THEN cmd' = Caught(cmd, "StrictComplianceError",
                        "Unexpected error in generation loop")
     ELSE LET c == [cmd EXCEPT !.llmCalls = @ + 1]
          IN  \/ \E failure \in LlmFailures : cmd' = CallFailed(c, failure)
              \/ \E reply \in LlmReplies :
                   cmd' = [c EXCEPT !.pc = "validate", !.generatedCode = reply]
  /\ UNCHANGED <<val, res, flat, pm, sug, fs>>

\* A test that would take the attempt before the last for the last one.
IsLastAttemptEarly(attempt) == attempt = maxAttempts - 1

\* Whether the attempt is the last one: attempt === maxAttempts.
IsLastAttempt(attempt) == attempt = maxAttempts

\* A validation pass that would read the configuration again instead of
\* taking the truth resolved at the start of the request.
ValidationTruthRead(c, files) ==
  IF extractTruth(files).threw THEN c.resolvedTruth
  ELSE resolveTruth(extractTruth(files).truth)

\* The truth a validation pass is given: the resolvedTruth argument of
\* generateCompliantUI.
ValidationTruth(c, files) == c.resolvedTruth

\* validateCode on the generated code, and what the loop does with it:
\* return the code of a valid result; on the last attempt warn and return the
\* sanitized code; otherwise append the feedback and try again.
Validate ==
  /\ cmd.pc = "validate"
  /\ LET truth == ValidationTruth(cmd, fs)
         validationResult == validateCode(cmd.generatedCode, truth)
         c == [cmd EXCEPT !.validationResult = validationResult,
                          !.history = Append(@, validationResult),
                          !.usedTruths = Append(@, truth)]
     IN  cmd' =
           IF validationResult.isValid
           THEN [c EXCEPT !.pc = "insert",
                          !.result = [returned |-> TRUE,
                                      value |-> validationResult.code]]
           ELSE IF IsLastAttempt(cmd.attempt)
           THEN [c EXCEPT !.pc = "insert",
                          !.shown = Append(@,
                             [kind |-> "warning",
                              title |-> "LazyUI: Generated code had violations. Returning sanitized version.",
                              issues |-> Len(validationResult.errors)]),
                          !.result = [returned |-> TRUE,
                                      value |-> validationResult.code]]
           ELSE [c EXCEPT !.pc = "callLLM",
                          !.messages = Append(@, ErrorFeedback(validationResult.errors)),
                          !.attempt = @ + 1]
  /\ UNCHANGED <<val, res, flat, pm, sug, fs>>

\* editor.edit(insert(position, generatedCode)) and the success message.
Insert ==
  /\ cmd.pc = "insert"
  /\ cmd' = [cmd EXCEPT !.pc = "done",
                        !.inserted = Append(@, cmd.result.value),
                        !.shown = Append(@,
                           [kind |-> "info",
                            title |-> "UI component generated successfully"])]
  /\ UNCHANGED <<val, res, flat, pm, sug, fs>>

\* The command has ended; it can be run again.
Finish ==
  /\ cmd.pc = "done"
  /\ cmd.request < MaxRequests
  /\ cmd' = [CommandIdle EXCEPT !.request = cmd.request]
  /\ UNCHANGED <<val, res, flat, pm, sug, fs>>

\* The user edits, adds or removes configuration files, at any time.
EditConfig ==
  /\ fs' \in Workspaces \ {fs}
  /\ UNCHANGED <<val, res, flat, pm, sug, cmd>>

CommandInit == cmd = CommandIdle /\ fs \in Workspaces

\* ------------------------------------------------------------------------
\* Specifications
\* ------------------------------------------------------------------------

CommandNext ==
  \/ Invoke
  \/ Extract
  \/ Resolve
  \/ Prompt
  \/ CallLLM
  \/ Validate
  \/ Insert
  \/ Finish
  \/ EditConfig

\* The command, run up to MaxRequests times over a changing workspace.
Init ==
  /\ CommandInit
  /\ val = ValIdle /\ res = ResIdle /\ flat = FlatIdle
  /\ pm = MatchIdle /\ sug = ClosestIdle

Next == CommandNext

Spec == Init /\ [][Next]_vars

\* validateCode on every text of ValidateTexts and truth of ValidateTruths.
ValidateInit ==
  /\ val \in { [ValIdle EXCEPT !.pc = "start", !.code = c, !.truth = t] :
                c \in ValidateTexts, t \in ValidateTruths }
  /\ res = ResIdle /\ flat = FlatIdle /\ pm = MatchIdle /\ sug = ClosestIdle
  /\ cmd = CommandIdle /\ fs = NoWorkspace

ValidateNext == ValTokenize \/ ValIterate \/ ValReturn

SpecValidate == ValidateInit /\ [][ValidateNext]_vars

\* resolveTruth on every ExtractedTruth of ResolveInputs.
ResolveInit ==
  /\ res \in { [ResIdle EXCEPT !.pc = "start", !.userTruth = u] :
                u \in ResolveInputs }
  /\ val = ValIdle /\ flat = FlatIdle /\ pm = MatchIdle /\ sug = ClosestIdle
  /\ cmd = CommandIdle /\ fs = NoWorkspace

ResolveNext == ResApply

SpecResolve == ResolveInit /\ [][ResolveNext]_vars

\* flattenObject on every object of FlattenInputs.
FlattenInit ==
  /\ flat \in { [FlatIdle EXCEPT !.pc = "start", !.obj = o] :
                 o \in FlattenInputs }
  /\ val = ValIdle /\ res = ResIdle /\ pm = MatchIdle /\ sug = ClosestIdle
  /\ cmd = CommandIdle /\ fs = NoWorkspace

FlattenNext == FlatApply

SpecFlatten == FlattenInit /\ [][FlattenNext]_vars

\* findLongestMatch on every class of MatchInputs.
MatchInit ==
  /\ pm \in { [MatchIdle EXCEPT !.pc = "start", !.className = c] :
               c \in MatchInputs }
  /\ val = ValIdle /\ res = ResIdle /\ flat = FlatIdle /\ sug = ClosestIdle
  /\ cmd = CommandIdle /\ fs = NoWorkspace

MatchNext == MatchApply

SpecMatch == MatchInit /\ [][MatchNext]_vars

\* findClosest on every target of ClosestTargets and pool of ClosestPools.
ClosestInit ==
  /\ sug \in { [ClosestIdle EXCEPT !.pc = "start", !.target = t,
                                    !.options = o] :
                t \in ClosestTargets, o \in ClosestPools }
  /\ val = ValIdle /\ res = ResIdle /\ flat = FlatIdle /\ pm = MatchIdle
  /\ cmd = CommandIdle /\ fs = NoWorkspace

ClosestNext == ClosestApply

SpecClosest == ClosestInit /\ [][ClosestNext]_vars

\* validateCode on every text holding one class of ClassInputs and truth of
\* ValidateTruths.
ClassInit ==
  /\ val \in { [ValIdle EXCEPT !.pc = "start", !.code = <<c>>, !.truth = t] :
                c \in ClassInputs, t \in ValidateTruths }
  /\ res = ResIdle /\ flat = FlatIdle /\ pm = MatchIdle /\ sug = ClosestIdle
  /\ cmd = CommandIdle /\ fs = NoWorkspace

ClassNext == ValTokenize \/ ValIterate \/ ValReturn

SpecClass == ClassInit /\ [][ClassNext]_vars

\* extractTruth, as the command calls it, on every configuration of
\* ExtractWorkspaces.
ExtractInit ==
  /\ cmd = [CommandIdle EXCEPT !.pc = "extract", !.request = 1]
  /\ fs \in ExtractWorkspaces
  /\ val = ValIdle /\ res = ResIdle /\ flat = FlatIdle
  /\ pm = MatchIdle /\ sug = ClosestIdle

ExtractNext == Extract

SpecExtract == ExtractInit /\ [][ExtractNext]_vars

\* ------------------------------------------------------------------------
\* Properties of validateCode (SpecValidate)
\* ------------------------------------------------------------------------

\* The verdicts of validateCode's loop body on the classes of the finished
\* run, taken class by class from the input.
Accepted(className) == ClassVerdict(className, val.truth).ok

KeptClasses == SelectSeq(val.classes, Accepted)

Rejected(className) == ~Accepted(className)

RejectedClasses == SelectSeq(val.classes, Rejected)

\* The number of places of the sequence s that hold x.
Occurrences(s, x) == Cardinality({i \in 1..Len(s) : s[i] = x})

\* C1: validateCode examines every tokenized class, whatever was rejected
\* before it, and returns isValid = true exactly when no class was rejected,
\* which is exactly when errors is empty.
ValidateExaminesEveryClass ==
  val.pc = "done" =>
    /\ val.classes = extractClasses(val.code)
    /\ val.idx = Len(val.classes)
    /\ val.result.isValid <=> (val.result.errors = <<>>)
    /\ val.result.isValid <=>
         (\A i \in 1..Len(val.classes) : Accepted(val.classes[i]))

\* A finished run whose first class was rejected and which still examined the
\* two classes after it, rejecting one of them.
ValidateWentOnAfterRejection ==
  /\ val.pc = "done"
  /\ Len(val.classes) = 3
  /\ Rejected(val.classes[1])
  /\ Accepted(val.classes[2])
  /\ Rejected(val.classes[3])
  /\ Len(val.result.errors) = 2
  /\ ~val.result.isValid

\* C2: the returned code is the classes that were not rejected, joined by
\* single spaces in their original order with duplicates kept; errors holds
\* one message per rejected class, in class order; so the classes in code and
\* the errors add up to the tokenized classes.  'bg-red text-giant p-4' with
\* red and 4 valid gives isValid = false, one error and code 'bg-red p-4'.
ValidateCodeIsTheKeptClasses ==
  val.pc = "done" =>
    /\ val.result.code = JoinSpace(KeptClasses)
    /\ SplitWhitespace(val.result.code) = KeptClasses
    /\ Len(val.result.errors) = Len(RejectedClasses)
    /\ \A k \in 1..Len(RejectedClasses) :
         val.result.errors[k].className = RejectedClasses[k]
    /\ Len(SplitWhitespace(val.result.code)) + Len(val.result.errors)
         = Len(val.classes)
    /\ (val.code = << <<"b","g","-","r","e","d"," ","t","e","x","t","-","g","i","a","n","t"," ","p","-","4">> >>
          /\ val.truth = resolveTruth(OwnedTruth))
       => /\ ~val.result.isValid
          /\ Len(val.result.errors) = 1
          /\ val.result.code = <<"b","g","-","r","e","d"," ","p","-","4">>

\* The run on 'bg-red text-giant p-4' has finished with the rejected class
\* dropped.
ValidateDroppedTextGiant ==
  /\ val.pc = "done"
  /\ val.code = << <<"b","g","-","r","e","d"," ","t","e","x","t","-","g","i","a","n","t"," ","p","-","4">> >>
  /\ val.truth = resolveTruth(OwnedTruth)
  /\ val.result.code = <<"b","g","-","r","e","d"," ","p","-","4">>
  /\ Len(val.result.errors) = 1
  /\ val.result.errors[1].className = <<"t","e","x","t","-","g","i","a","n","t">>

\* A class with both a '[' and a ']' in it.
HasBrackets(className) ==
  /\ \E i \in 1..Len(className) : className[i] = "["
  /\ \E i \in 1..Len(className) : className[i] = "]"

\* C3: a class containing both '[' and ']' is rejected before prefix
\* matching, whatever its prefix or category, also when it matches no prefix,
\* and whatever the resolved truth holds: it is never in code, and each of its
\* occurrences adds one error, the arbitrary-value error.
ValidateRejectsBrackets ==
  val.pc = "done" =>
    \A i \in 1..Len(val.classes) :
      HasBrackets(val.classes[i]) =>
        /\ Occurrences(SplitWhitespace(val.result.code), val.classes[i]) = 0
        /\ Occurrences(val.result.errors, ArbitraryError(val.classes[i]))
             = Occurrences(val.classes, val.classes[i])
        /\ ~val.result.isValid

\* A finished run over a bracketed class with a sizing prefix, a bracketed
\* class that matches no prefix, and a plain class.
ValidateSawBracketsWithAndWithoutPrefix ==
  /\ val.pc = "done"
  /\ val.classes = << <<"w","-","[","5","0","p","x","]">>, <<"[","x","]">>, <<"f","l","e","x">> >>
  /\ findLongestMatch(val.classes[1]) # NoMatch
  /\ findLongestMatch(val.classes[2]) = NoMatch
  /\ val.result.code = <<"f","l","e","x">>
  /\ Len(val.result.errors) = 2

\* ------------------------------------------------------------------------
\* Properties of resolveTruth (SpecResolve)
\* ------------------------------------------------------------------------

\* One token family resolved as the claim words it: the baseline is the
\* override bucket when it is non-empty and the defaults otherwise; the
\* resolved keys are those of the baseline and of the extend bucket, a key of
\* extend with its extend value, any other with its baseline value.
FamilyIsBaselineOverlaid(resolved, override, extend, defaults) ==
  LET baseline == IF override # <<>> THEN override ELSE defaults
  IN  /\ KeySet(resolved) = KeySet(baseline) \cup KeySet(extend)
      /\ Len(resolved) = Cardinality(KeySet(resolved))
      /\ \A k \in KeySet(extend) : ObjGet(resolved, k) = ObjGet(extend, k)
      /\ \A k \in KeySet(baseline) \ KeySet(extend) :
           ObjGet(resolved, k) = ObjGet(baseline, k)
      /\ (override = <<>> /\ extend = <<>>) => resolved = defaults

\* C4: for each token family independently, resolveTruth returns the baseline
\* overlaid with the extend bucket: extend wins on its keys, the baseline
\* gives every other key, no other key exists; with override and extend both
\* empty the result is exactly the built-in defaults.
ResolveIsBaselineOverlaidWithExtend ==
  res.pc = "done" =>
    /\ FamilyIsBaselineOverlaid(res.resolved.colors,
                                res.userTruth.override.colors,
                                res.userTruth.extend.colors, DefaultColors)
    /\ FamilyIsBaselineOverlaid(res.resolved.spacing,
                                res.userTruth.override.spacing,
                                res.userTruth.extend.spacing, DefaultSpacing)

\* A resolved truth where colors has an override that extend overrules on a
\* shared key, while spacing has no override and extend overrules a default.
ResolveMixedFamilies ==
  /\ res.pc = "done"
  /\ \E k \in KeySet(res.userTruth.override.colors)
               \cap KeySet(res.userTruth.extend.colors) :
       /\ ObjGet(res.userTruth.override.colors, k)
            # ObjGet(res.userTruth.extend.colors, k)
       /\ ObjGet(res.resolved.colors, k) = ObjGet(res.userTruth.extend.colors, k)
  /\ res.userTruth.override.spacing = <<>>
  /\ ObjHas(res.userTruth.extend.spacing, <<"4">>)
  /\ ObjGet(res.userTruth.extend.spacing, <<"4">>) # ObjGet(DefaultSpacing, <<"4">>)
  /\ ObjGet(res.resolved.spacing, <<"4">>) = <<"2","r","e","m">>
  /\ ObjHas(res.resolved.spacing, <<"p","x">>)

\* ------------------------------------------------------------------------
\* Properties of flattenObject (SpecFlatten)
\* ------------------------------------------------------------------------

\* The flat keys a nested key DEFAULT would not leave behind: those ending in
\* '-DEFAULT'.
EndsWithDefault(k) ==
  Len(k) > 8 /\ SubSeq(k, Len(k) - 7, Len(k)) = <<"-","D","E","F","A","U","L","T">>

\* C5: flattening collapses a child key named DEFAULT onto its parent's key:
\* { primary: { DEFAULT: '#000' } } yields the flat key 'primary' and not
\* 'primary-DEFAULT', and no flat key ends in '-DEFAULT'.
FlattenCollapsesDefault ==
  flat.pc = "done" =>
    /\ \A k \in KeySet(flat.result) : ~EndsWithDefault(k)
    /\ flat.obj = << <<<<"p","r","i","m","a","r","y">>,
                       ObjectValue(<< <<<<"D","E","F","A","U","L","T">>, StringValue(<<"#","0","0","0">>)>> >>)>> >>
       => flat.result = << <<<<"p","r","i","m","a","r","y">>, <<"#","0","0","0">>>> >>

\* The nested object { primary: { DEFAULT: '#000' } } has been flattened.
FlattenedPrimaryDefault ==
  /\ flat.pc = "done"
  /\ flat.obj = << <<<<"p","r","i","m","a","r","y">>,
                     ObjectValue(<< <<<<"D","E","F","A","U","L","T">>, StringValue(<<"#","0","0","0">>)>> >>)>> >>
  /\ flat.result = << <<<<"p","r","i","m","a","r","y","-","D","E","F","A","U","L","T">>, <<"#","0","0","0">>>> >>

\* ------------------------------------------------------------------------
\* Properties of findLongestMatch (SpecMatch)
\* ------------------------------------------------------------------------

\* The table entries that match className, stated on the characters: an entry
\* whose prefix ends in '-' matches when className begins with the prefix,
\* any other entry only when className is the prefix.
MatchingEntries(className) ==
  {i \in 1..Len(PrefixEntries) :
     LET p == PrefixEntries[i].prefix
     IN  IF p[Len(p)] = "-"
         THEN /\ Len(p) <= Len(className)
              /\ \A k \in 1..Len(p) : className[k] = p[k]
         ELSE className = p}

\* C6: findLongestMatch returns the entry with the longest prefix among all
\* matching entries, the first-registered one among those of equal length,
\* and no match when no entry matches; the remainder is what follows the
\* prefix.  For 'border-blue-500' it is prefix 'border-' in category colors
\* with remainder 'blue-500'.
LongestMatchWinsFirstOnTies ==
  pm.pc = "done" =>
    LET matching == MatchingEntries(pm.className)
    IN  /\ matching = {} => (pm.match = NoMatch /\ pm.token = <<>>)
        /\ matching # {} =>
             \E i \in matching :
               /\ pm.match = PrefixEntries[i]
               /\ \A j \in matching :
                    /\ Len(PrefixEntries[j].prefix) <= Len(PrefixEntries[i].prefix)
                    /\ Len(PrefixEntries[j].prefix) = Len(PrefixEntries[i].prefix)
                         => i <= j
               /\ IF pm.match.prefix[Len(pm.match.prefix)] = "-"
                  THEN pm.match.prefix \o pm.token = pm.className
                  ELSE pm.token = <<>>
        /\ pm.className = <<"b","o","r","d","e","r","-","b","l","u","e","-","5","0","0">> =>
             /\ pm.match = [category |-> "colors", prefix |-> <<"b","o","r","d","e","r","-">>]
             /\ pm.token = <<"b","l","u","e","-","5","0","0">>

\* 'border-blue-500' has been matched.
MatchedBorderBlue ==
  /\ pm.pc = "done"
  /\ pm.className = <<"b","o","r","d","e","r","-","b","l","u","e","-","5","0","0">>
  /\ pm.match.category = "colors"
  /\ pm.match.prefix = <<"b","o","r","d","e","r","-">>
  /\ pm.token = <<"b","l","u","e","-","5","0","0">>

\* ------------------------------------------------------------------------
\* Properties of findClosest (SpecClosest)
\* ------------------------------------------------------------------------

\* The number of candidates of the pool that go before candidate i: those
\* nearer to the target, and those as near that stand earlier in the pool.
RankInPool(i) ==
  LET d(k) == levenshtein(sug.target, sug.options[k])
  IN  Cardinality({j \in 1..Len(sug.options) :
                     d(j) < d(i) \/ (d(j) = d(i) /\ j < i)})

\* C7: findClosest returns the 3 candidates nearest to the target by edit
\* distance (all of them when the pool has fewer than 3), in ascending
\* distance, candidates of equal distance in the pool's order.  For the pool
\* ['blue-500', 'blue-600', 'green-500'] and target 'blue-50' a candidate at
\* distance 1 comes first and 'green-500' last.
ClosestAreTheThreeNearestInOrder ==
  sug.pc = "done" =>
    /\ Len(sug.result) = IF Len(sug.options) < 3 THEN Len(sug.options) ELSE 3
    /\ \A i \in 1..Len(sug.options) :
         RankInPool(i) < 3 => sug.result[RankInPool(i) + 1] = sug.options[i]
    /\ (sug.target = <<"b","l","u","e","-","5","0">>
          /\ sug.options = << <<"b","l","u","e","-","5","0","0">>, <<"b","l","u","e","-","6","0","0">>, <<"g","r","e","e","n","-","5","0","0">> >>)
       => /\ levenshtein(sug.target, sug.result[1]) = 1
          /\ sug.result[3] = <<"g","r","e","e","n","-","5","0","0">>
          /\ levenshtein(sug.target, <<"g","r","e","e","n","-","5","0","0">>) = 5

\* The suggestions for 'blue-50' from the pool of the example.
ClosestToBlue50 ==
  /\ sug.pc = "done"
  /\ sug.target = <<"b","l","u","e","-","5","0">>
  /\ sug.options = << <<"b","l","u","e","-","5","0","0">>, <<"b","l","u","e","-","6","0","0">>, <<"g","r","e","e","n","-","5","0","0">> >>
  /\ sug.result = << <<"b","l","u","e","-","5","0","0">>, <<"b","l","u","e","-","6","0","0">>, <<"g","r","e","e","n","-","5","0","0">> >>

\* ------------------------------------------------------------------------
\* Properties of the generate command (Spec)
\* ------------------------------------------------------------------------

\* The classes of a returned code that validateCode would reject.
RejectedIn(code, resolvedTruth) ==
  {i \in 1..Len(SplitWhitespace(code)) :
     ~ClassVerdict(SplitWhitespace(code)[i], resolvedTruth).ok}

ExhaustionRaisesStrictCompliance ==
  LET exhausted == /\ Len(cmd.history) = 3
                   /\ \A k \in 1..3 : ~cmd.history[k].isValid
      raised == cmd.thrown = "StrictComplianceError"
  IN  cmd.pc = "done" =>
        /\ exhausted <=> raised
        /\ raised <=>
             (\E i \in 1..Len(cmd.shown) :
                /\ cmd.shown[i].kind = "error"
                /\ cmd.shown[i].title = "Strict Compliance Error")

\* Whether extraction fails on the workspace root, told from its files: no
\* recognized configuration file, or the first one in probing order cannot be
\* read, parsed or traversed.
ExtractionFails(files) ==
  LET present == {i \in 1..Len(ConfigFiles) : files[ConfigFiles[i]].exists}
  IN  \/ present = {}
      \/ LET first == CHOOSE i \in present : \A j \in present : i <= j
             file == files[ConfigFiles[first]]
         IN  ~file.readable \/ ~file.parses \/ ~file.traversable

\* C10: every extraction failure is raised as ConfigParseError and ends the
\* request: the extraction step on a failing workspace leaves the command
\* done with that error and its message shown, and a request that raised it
\* has resolved no truth, called no model, validated nothing and inserted
\* nothing.
ExtractionFailureEndsRequest ==
  /\ [][(cmd.pc = "extract" /\ cmd' # cmd /\ ExtractionFails(fs)) =>
          /\ cmd'.pc = "done"
          /\ cmd'.thrown = "ConfigParseError"
          /\ Len(cmd'.shown) = 1
          /\ cmd'.shown[1].kind = "error"
          /\ cmd'.shown[1].title = "Config Parse Error"]_vars
  /\ [][(cmd.pc = "extract" /\ cmd' # cmd /\ ~ExtractionFails(fs)) =>
          cmd'.thrown = ""]_vars
  /\ [](cmd.thrown = "ConfigParseError" =>
          /\ cmd.pc = "done"
          /\ cmd.resolutions = 0
          /\ cmd.llmCalls = 0
          /\ cmd.history = <<>>
          /\ ~cmd.result.returned
          /\ cmd.inserted = <<>>
          /\ cmd.shown = << ErrorMessage("Config Parse Error",
                                         cmd.shown[1].message) >>)

\* A request that ended on a configuration file that does not parse.
ParseFailureShown ==
  /\ cmd.pc = "done"
  /\ cmd.thrown = "ConfigParseError"
  /\ cmd.shown = << ErrorMessage("Config Parse Error",
                                 "Failed to parse config file") >>
  /\ cmd.extractions = 1
  /\ cmd.llmCalls = 0

\* ------------------------------------------------------------------------
\* Properties of the category rules of validateCode (SpecClass)
\* ------------------------------------------------------------------------

\* The class is among the classes of the returned code.
InCode(className) ==
  Occurrences(SplitWhitespace(val.result.code), className) > 0

\* The errors of the finished run that name the class.
ErrorsNaming(className) ==
  SelectSeq(val.result.errors, LAMBDA e : e.className = className)

\* The class was rejected: it is absent from code and one error names it for
\* each of its occurrences.
Dropped(className) ==
  /\ ~InCode(className)
  /\ Len(ErrorsNaming(className)) = Occurrences(val.classes, className)

\* The class was accepted: it is in code and no error names it.
Passed(className) == InCode(className) /\ ErrorsNaming(className) = <<>>

\* The value token of a class that matched a prefix of the table.
Remainder(className) ==
  extractToken(className, findLongestMatch(className).prefix)

MatchedCategory(className) ==
  IF findLongestMatch(className) = NoMatch THEN "none"
  ELSE findLongestMatch(className).category

\* C11: a class without a bracket pair whose longest-matching prefix is in the
\* spacing category is accepted if and only if the remainder after the prefix
\* is a key of the resolved spacing; in every other case, an empty remainder
\* included, it is rejected.
SpacingAcceptedIffRemainderIsKey ==
  val.pc = "done" =>
    \A i \in 1..Len(val.classes) :
      LET c == val.classes[i]
      IN  (~HasBrackets(c) /\ MatchedCategory(c) = "spacing") =>
            IF ObjHas(val.truth.spacing, Remainder(c))
            THEN Passed(c) ELSE Dropped(c)

\* The class 'p-', whose remainder is empty, came through validation as an
\* accepted class.
SpacingEmptyRemainderPassed ==
  /\ val.pc = "done"
  /\ val.classes = << <<"p","-">> >>
  /\ val.result.isValid
  /\ val.result.code = <<"p","-">>

MatchedPrefix(className) == findLongestMatch(className).prefix

\* An overloaded color prefix: a remainder of the narrow fixed set is
\* accepted, any other is accepted if and only if it is a key of the resolved
\* colors.
NarrowSetThenColors(className, narrow) ==
  IF SeqIncludes(narrow, Remainder(className)) THEN Passed(className)
  ELSE IF ObjHas(val.truth.colors, Remainder(className))
       THEN Passed(className) ELSE Dropped(className)

\* C12: for a class whose matched prefix is 'text-' in the colors category a
\* remainder that is a text-size keyword is accepted whatever the resolved
\* colors hold, and any other remainder is accepted if and only if it is a key
\* of the resolved colors; likewise for 'border-' with the widths 0, 2, 4, 8.
OverloadedPrefixesCheckNarrowSetFirst ==
  val.pc = "done" =>
    \A i \in 1..Len(val.classes) :
      LET c == val.classes[i]
      IN  (~HasBrackets(c) /\ MatchedCategory(c) = "colors") =>
            /\ MatchedPrefix(c) = <<"t","e","x","t","-">> => NarrowSetThenColors(c, TEXT_SIZES)
            /\ MatchedPrefix(c) = <<"b","o","r","d","e","r","-">>
                 => NarrowSetThenColors(c, BORDER_WIDTHS)

\* Finished runs that took the narrow set first: 'text-xl' and 'border-8'
\* were accepted under a truth whose colors hold neither xl nor 8.
NarrowSetAcceptedWithoutColor ==
  /\ val.pc = "done"
  /\ val.classes \in { << <<"t","e","x","t","-","x","l">> >>, << <<"b","o","r","d","e","r","-","8">> >> }
  /\ ~ObjHas(val.truth.colors, Remainder(val.classes[1]))
  /\ Passed(val.classes[1])

\* The layout sizing prefixes.
SizingPrefixes ==
  { <<"w","-">>, <<"h","-">>, <<"m","i","n","-","w","-">>, <<"m","a","x","-","w","-">>, <<"m","i","n","-","h","-">>, <<"m","a","x","-","h","-">> }

\* C13: a class whose matched prefix is a layout sizing prefix is accepted if
\* and only if its remainder is a standard size keyword, or has the form
\* integer/integer, or is a key of the resolved spacing; otherwise it is
\* rejected.
SizingAcceptedIffKeywordFractionOrKey ==
  val.pc = "done" =>
    \A i \in 1..Len(val.classes) :
      LET c == val.classes[i]
      IN  (/\ ~HasBrackets(c)
           /\ MatchedCategory(c) = "layout"
           /\ MatchedPrefix(c) \in SizingPrefixes) =>
            IF \/ SeqIncludes(STANDARD_SIZE_KEYWORDS, Remainder(c))
               \/ IsFraction(Remainder(c))
               \/ ObjHas(val.truth.spacing, Remainder(c))
            THEN Passed(c) ELSE Dropped(c)

\* The directional border-width prefixes of the layout category.
BorderSidePrefixes ==
  { <<"b","o","r","d","e","r","-","t","-">>, <<"b","o","r","d","e","r","-","b","-">>, <<"b","o","r","d","e","r","-","l","-">>, <<"b","o","r","d","e","r","-","r","-">>,
    <<"b","o","r","d","e","r","-","x","-">>, <<"b","o","r","d","e","r","-","y","-">> }

\* The classes the rules leave unexamined: no entry of the table matches, or
\* the matched prefix is an exact-match one, or the category is typography or
\* decoration, or it is layout outside the sizing and directional
\* border-width prefixes.
Unexamined(className) ==
  \/ MatchedCategory(className) = "none"
  \/ ~EndsWithDash(MatchedPrefix(className))
  \/ MatchedCategory(className) \in {"typography", "decoration"}
  \/ /\ MatchedCategory(className) = "layout"
     /\ MatchedPrefix(className) \notin SizingPrefixes \cup BorderSidePrefixes

\* C14: a class without a bracket pair that matches no entry of the prefix
\* table, or an exact-match prefix, or a prefix of the typography or
\* decoration category, or a layout prefix other than the sizing and the
\* directional border-width ones, is in code and produces no error, whatever
\* the resolved truth holds.
UnexaminedClassesPassThrough ==
  val.pc = "done" =>
    \A i \in 1..Len(val.classes) :
      (~HasBrackets(val.classes[i]) /\ Unexamined(val.classes[i]))
        => Passed(val.classes[i])

\* A finished run on a class of each unexamined kind whose remainder, where
\* there is one, is a key of neither family: no match, an exact-match prefix,
\* typography, decoration, and layout outside sizing.
UnexaminedClassPassed ==
  /\ val.pc = "done"
  /\ val.classes \in { << <<"f","o","o","-","g","i","a","n","t">> >>, << <<"h","i","d","d","e","n">> >>,
                       << <<"f","o","n","t","-","g","i","a","n","t">> >>, << <<"r","o","u","n","d","e","d","-","g","i","a","n","t">> >>,
                       << <<"j","u","s","t","i","f","y","-","g","i","a","n","t">> >> }
  /\ Unexamined(val.classes[1])
  /\ val.result = [isValid |-> TRUE, code |-> val.classes[1], errors |-> <<>>]

\* The candidates the suggestions for a rejected class are drawn from.
SuggestionPool(className) ==
  IF MatchedCategory(className) = "colors" THEN KeySet(val.truth.colors)
  ELSE IF MatchedCategory(className) = "spacing" THEN KeySet(val.truth.spacing)
  ELSE IF MatchedPrefix(className) \in SizingPrefixes
       THEN {STANDARD_SIZE_KEYWORDS[i] : i \in 1..Len(STANDARD_SIZE_KEYWORDS)}
            \cup KeySet(val.truth.spacing)
  ELSE KeySet(val.truth.spacing)

\* C15: every error for a rejected class of a truth-governed category names
\* that class and carries at most three suggestions, each the class's own
\* matched prefix followed by a candidate of the category's pool; no
\* suggestion carries another prefix.
SuggestionsKeepThePrefix ==
  val.pc = "done" =>
    /\ \A k \in 1..Len(val.result.errors) :
         LET e == val.result.errors[k]
         IN  /\ e.className = RejectedClasses[k]
             /\ ~HasBrackets(e.className) =>
                  /\ findLongestMatch(e.className) # NoMatch
                  /\ Len(e.suggestions) <= 3
                  /\ \A j \in 1..Len(e.suggestions) :
                       /\ StartsWith(e.suggestions[j], MatchedPrefix(e.className))
                       /\ Substring(e.suggestions[j],
                                    Len(MatchedPrefix(e.className)))
                            \in SuggestionPool(e.className)
    /\ \A i \in 1..Len(val.classes) :
         Dropped(val.classes[i]) => ErrorsNaming(val.classes[i]) # <<>>

\* The run on 'border-giant' under the defaults ended with one error that
\* names the class and suggests three colors, each after 'border-'.
BorderGiantGotThreeSuggestions ==
  /\ val.pc = "done"
  /\ val.classes = << <<"b","o","r","d","e","r","-","g","i","a","n","t">> >>
  /\ val.truth = resolveTruth(BareTruth)
  /\ Len(val.result.errors) = 1
  /\ val.result.errors[1].className = <<"b","o","r","d","e","r","-","g","i","a","n","t">>
  /\ Len(val.result.errors[1].suggestions) = 3
  /\ \A j \in 1..3 :
       StartsWith(val.result.errors[1].suggestions[j], <<"b","o","r","d","e","r","-">>)

\* ------------------------------------------------------------------------
\* Properties of extractTruth (SpecExtract)
\* ------------------------------------------------------------------------

\* The colors and spacing properties of a tree, each with the chain of the
\* names of the properties that enclose it (outermost first) and the names
\* declared in its value.
RECURSIVE DeclaredIn(_, _)
DeclaredIn(node, chain) ==
  IF node.type # "ObjectExpression" THEN {}
  ELSE UNION
         { (IF node.properties[i].key \in { <<"c","o","l","o","r","s">>, <<"s","p","a","c","i","n","g">> }
            THEN { [chain |-> chain, key |-> node.properties[i].key,
                    names |-> { node.properties[i].value.properties[j].key :
                                  j \in 1..Len(node.properties[i].value.properties) }] }
            ELSE {})
           \cup DeclaredIn(node.properties[i].value,
                           Append(chain, node.properties[i].key)) :
           i \in 1..Len(node.properties) }

\* The names declared for the key under exactly the given chain.
NamesUnder(ast, chain, key) ==
  UNION { d.names : d \in { e \in DeclaredIn(ast, <<>>) :
                              e.chain = chain /\ e.key = key } }

\* C16: a property named colors or spacing contributes to the extracted truth
\* if and only if the chain of its enclosing property names is exactly theme,
\* and then to the override bucket, or exactly theme, extend, and then to the
\* extend bucket; under any other ancestry it contributes no key to any
\* bucket.
OnlyThemeAndThemeExtendContribute ==
  (cmd.pc = "resolve" /\ cmd.extractions = 1) =>
    LET ast == fs["tailwind.config.js"].ast
    IN  /\ KeySet(cmd.userTruth.override.colors)
             = NamesUnder(ast, << <<"t","h","e","m","e">> >>, <<"c","o","l","o","r","s">>)
        /\ KeySet(cmd.userTruth.override.spacing)
             = NamesUnder(ast, << <<"t","h","e","m","e">> >>, <<"s","p","a","c","i","n","g">>)
        /\ KeySet(cmd.userTruth.extend.colors)
             = NamesUnder(ast, << <<"t","h","e","m","e">>, <<"e","x","t","e","n","d">> >>, <<"c","o","l","o","r","s">>)
        /\ KeySet(cmd.userTruth.extend.spacing)
             = NamesUnder(ast, << <<"t","h","e","m","e">>, <<"e","x","t","e","n","d">> >>, <<"s","p","a","c","i","n","g">>)

\* The extraction of { 'theme.extend': { colors: { a: '#abc' } }, ... } has
\* put the key a into the extend bucket of colors.
DottedNameReachedExtend ==
  /\ cmd.pc = "resolve"
  /\ fs["tailwind.config.js"].ast.properties[1].key = <<"t","h","e","m","e",".","e","x","t","e","n","d">>
  /\ fs["tailwind.config.js"].ast.properties[1].value.properties[1].key = <<"c","o","l","o","r","s">>
  /\ ObjHas(cmd.userTruth.extend.colors, <<"a">>)

\* ------------------------------------------------------------------------
\* Properties of a generation request (Spec)
\* ------------------------------------------------------------------------

\* The truth of the configuration as it was when this request extracted it.
TruthOfRequest == resolveTruth(extractTruth(cmd.configRead).truth)

\* The extraction of a request reads the configuration as it is at that
\* moment, also in a request that follows another.
ExtractionReadsTheCurrentFiles ==
  cmd.pc = "extract" =>
    /\ cmd'.configRead = fs
    /\ cmd'.extractions = 1
    /\ ~extractTruth(fs).threw => cmd'.userTruth = extractTruth(fs).truth

\* Extraction and resolution have run at most once, both before any model
\* call, and every validation pass so far was given the truth of the
\* configuration this request read.
ResolvedOnceAndUsedByEveryPass ==
  /\ cmd.extractions <= 1 /\ cmd.resolutions <= 1
  /\ cmd.resolutions = 1 => cmd.extractions = 1 /\ ~cmd.extractFailed
  /\ (cmd.llmCalls > 0 \/ cmd.pc \in {"prompt", "callLLM", "validate", "insert"})
       => /\ cmd.extractions = 1 /\ cmd.resolutions = 1
          /\ cmd.resolvedTruth = TruthOfRequest
  /\ Len(cmd.usedTruths) = Len(cmd.history)
  /\ Len(cmd.usedTruths) <= 3
  /\ \A i \in 1..Len(cmd.usedTruths) : cmd.usedTruths[i] = TruthOfRequest

\* C17: in every request the truth is extracted and resolved exactly once,
\* before the first model call, and that resolved truth, unchanged, is the one
\* every validation pass of the request uses (at most 3 passes); it is the
\* truth of the configuration as the request read it, whatever an earlier
\* request read and whatever is edited afterwards.
TruthIsResolvedOncePerRequest ==
  /\ []ResolvedOnceAndUsedByEveryPass
  /\ [][ExtractionReadsTheCurrentFiles]_cmd

\* A second request that has validated three times against the truth of the
\* configuration it read, while the configuration has been edited since into
\* one that yields another truth.
SecondRequestKeptItsTruth ==
  /\ cmd.request = 2
  /\ Len(cmd.usedTruths) = 3
  /\ cmd.usedTruths[3] = TruthOfRequest
  /\ cmd.configRead # fs
  /\ ~extractTruth(fs).threw
  /\ resolveTruth(extractTruth(fs).truth) # TruthOfRequest

\* The conversation as it stands before the model call of the current
\* attempt: the two prompts, then one user message per rejected attempt so
\* far, holding the errors of that attempt in their order.
ConversationIsPromptsThenFeedback ==
  cmd.pc \in {"callLLM", "validate"} /\ cmd.attempt <= maxAttempts =>
    /\ Len(cmd.messages) = 2 + (cmd.attempt - 1)
    /\ cmd.messages[1].role = "system"
    /\ cmd.messages[2] = UserPrompt
    /\ Len(cmd.history) = cmd.attempt - 1
    /\ \A k \in 1..(cmd.attempt - 1) :
         /\ ~cmd.history[k].isValid
         /\ cmd.messages[2 + k].role = "user"
         /\ cmd.messages[2 + k].errors = cmd.history[k].errors

\* A step of generateCompliantUI keeps every message of the conversation in
\* its place; the k-th model call is made with 2 + (k - 1) messages; a
\* validation pass depends on the generated code and the truth alone; and a
\* message is appended only by a rejected attempt other than the last.
ConversationStep ==
  (cmd.pc \in {"callLLM", "validate"} /\ cmd'.pc # "idle") =>
    /\ Len(cmd'.messages) >= Len(cmd.messages)
    /\ SubSeq(cmd'.messages, 1, Len(cmd.messages)) = cmd.messages
    /\ cmd'.llmCalls = cmd.llmCalls + 1 =>
         /\ cmd'.llmCalls \in 1..3
         /\ Len(cmd.messages) = 2 + (cmd'.llmCalls - 1)
         /\ cmd'.messages = cmd.messages
    /\ cmd.pc = "validate" =>
         /\ cmd'.validationResult
              = validateCode(cmd.generatedCode, cmd.resolvedTruth)
         /\ Len(cmd'.messages) = Len(cmd.messages) + 1
              <=> (~cmd'.validationResult.isValid /\ cmd.attempt # 3)
         /\ Len(cmd'.messages) <= Len(cmd.messages) + 1

\* C18: the conversation of generateCompliantUI is append-only: it starts as
\* [system prompt, user prompt]; each rejected attempt other than the last
\* appends exactly one user message listing that attempt's errors in order and
\* nothing else changes it; the k-th model call (k = 1..3) receives exactly
\* 2 + (k - 1) messages; the errors of an attempt reach a later attempt only
\* through these messages.
ConversationIsAppendOnly ==
  /\ []ConversationIsPromptsThenFeedback
  /\ [][ConversationStep]_cmd

\* The third model call is about to be made with four messages: the prompts
\* and the feedback of two rejected attempts, each with the errors of its
\* attempt.
ThirdCallGetsFourMessages ==
  /\ cmd.pc = "callLLM"
  /\ cmd.attempt = 3
  /\ cmd.llmCalls = 2
  /\ Len(cmd.messages) = 4
  /\ cmd.messages[3].errors = cmd.history[1].errors
  /\ cmd.messages[4].errors = cmd.history[2].errors
  /\ Len(cmd.messages[3].errors) = 1
  /\ Len(cmd.messages[4].errors) = 2

\* ------------------------------------------------------------------------
\* Sanitized output (SpecValidate)
\* ------------------------------------------------------------------------

\* Validating a class attribute whose content is the given code, against the
\* given truth, accepts every class of it and gives the same code back.
IsFixedPoint(code, truth) ==
  validateCode(<<code>>, truth)
    = [isValid |-> TRUE, code |-> code, errors |-> <<>>]

\* C19: the sanitized output is a fixed point of validation: if r is the
\* result of validateCode on a text and a truth, validating a class attribute
\* whose content is r.code against the same truth gives isValid = true, no
\* error and the code r.code; so the code generateCompliantUI returns, from a
\* valid attempt or on exhaustion, holds no class validation would reject.
SanitizedCodeIsAFixedPoint ==
  /\ val.pc = "done" => IsFixedPoint(val.result.code, val.truth)
  /\ cmd.result.returned => IsFixedPoint(cmd.result.value, cmd.resolvedTruth)

\* A finished run that rejected a class and kept two others, whose code
\* validates again without an error.
SanitizedCodeValidatedAgain ==
  /\ val.pc = "done"
  /\ ~val.result.isValid
  /\ Len(SplitWhitespace(val.result.code)) = 2
  /\ validateCode(<<val.result.code>>, val.truth).isValid
  /\ validateCode(<<val.result.code>>, val.truth).code = val.result.code

\* A model call that did not return generated code: the step of the call
\* leaves the request without code to validate.
FailedCallStep ==
  /\ cmd.pc = "callLLM"
  /\ cmd'.llmCalls = cmd.llmCalls + 1
  /\ cmd'.pc # "validate"

\* A failed call ends the request at once with its error: nothing is
\* validated, nothing is returned or inserted, and the error is shown.
FailedCallEndsTheRequest ==
  FailedCallStep =>
    /\ cmd'.pc = "done"
    /\ cmd'.thrown = "Error"
    /\ cmd'.history = cmd.history
    /\ cmd'.attempt = cmd.attempt
    /\ ~cmd'.result.returned
    /\ cmd'.inserted = <<>>
    /\ Len(cmd'.shown) = Len(cmd.shown) + 1
    /\ cmd'.shown[Len(cmd'.shown)].title = "Error"
    /\ cmd'.shown[Len(cmd'.shown)].message \in LlmFailures

\* After the error nothing more happens in the request: the next step of the
\* command is the end of the invocation.
NothingAfterTheError == cmd.thrown = "Error" => cmd'.pc = "idle"

\* A request that ended with the error of a model call has validated only the
\* attempts before it and inserted nothing; text is inserted at most once per
\* command, and it is the value generateCompliantUI returned.
InsertedOnlyAfterReturn ==
  /\ cmd.thrown = "Error" =>
       /\ cmd.pc = "done"
       /\ cmd.llmCalls \in 1..3
       /\ Len(cmd.history) = cmd.llmCalls - 1
       /\ ~cmd.result.returned
       /\ cmd.inserted = <<>>
  /\ Len(cmd.inserted) <= 1
  /\ cmd.inserted # <<>> =>
       /\ cmd.result.returned
       /\ cmd.inserted = <<cmd.result.value>>
       /\ cmd.thrown = ""

\* C20: when a model call fails in any attempt, generateCompliantUI ends at
\* once with that error: the failed attempt is not validated, no further
\* attempt is made even when attempts remain, and the command inserts nothing;
\* text is inserted at most once per command, and only after
\* generateCompliantUI has returned a value.
FailedCallInsertsNothing ==
  /\ []InsertedOnlyAfterReturn
  /\ [][FailedCallEndsTheRequest]_cmd
  /\ [][NothingAfterTheError]_cmd

\* The second model call of a request failed: one attempt was validated and
\* rejected, an attempt remained, and the request ended with the error shown
\* and nothing inserted.
SecondCallFailed ==
  /\ cmd.pc = "done"
  /\ cmd.thrown = "Error"
  /\ cmd.llmCalls = 2
  /\ cmd.attempt = 2
  /\ Len(cmd.history) = 1
  /\ ~cmd.history[1].isValid
  /\ cmd.inserted = <<>>
  /\ cmd.shown[Len(cmd.shown)].title = "Error"
====
